---- MODULE Spec2Model ----
(***************************************************************************)
(* State-machine model of the questionnaire wizard                         *)
(* (src/src/views/LangGraphQuestionnaire.vue): its reactive state, the     *)
(* requests it has in flight and the handlers that run when they resolve.  *)
(***************************************************************************)
EXTENDS Bags, FiniteSets, Integers, Sequences, TLC

(***************************************************************************)
(* Bounds of the model.                                                    *)
(***************************************************************************)
MaxHistory == 1
MaxInflight == 2

(* The 10MB upload ceiling, in MB. *)
MaxUploadMB == 10

(***************************************************************************)
(* JavaScript values held by the answer refs.  Every value is a record of  *)
(* the same shape; k is the JavaScript type the code's checks distinguish  *)
(* (Array.isArray, typeof x === 'object', x === null).                     *)
(*   null : null / undefined                                               *)
(*   str  : a string s                                                     *)
(*   arr  : an array holding the option labels a                           *)
(*   obj  : a plain object with the field/value pairs o                    *)
(*   wrap : an object {value: s}                                           *)
(*   file : the uploadedFile object; f is its name key, "" when the object *)
(*          has none                                                       *)
(***************************************************************************)
(* What the user types: nothing, text, a blank. *)
TextInputs == {"", "x"}
FieldInputs == {"x", " "}
Options == {"A"}
FieldNames == {"f1"}
Files == {[name |-> "small.pdf", size |-> 5], [name |-> "big.pdf", size |-> 11]}

Val(k, s, a, o, f) == [k |-> k, s |-> s, a |-> a, o |-> o, f |-> f]
Null == Val("null", "", {}, {}, "")
Str(s) == Val("str", s, {}, {}, "")
Arr(a) == Val("arr", "", a, {}, "")
Obj(o) == Val("obj", "", {}, o, "")
Wrap(s) == Val("wrap", s, {}, {}, "")
FileObj(f) == Val("file", "", {}, {}, f)

IsArray(v) == v.k = "arr"
IsObject(v) == v.k \in {"arr", "obj", "wrap", "file"}
IsScalar(v) == v.k \in {"str", "null"}

(* String(x).trim() *)
Trim(s) == IF s = " " THEN "" ELSE s

(* formData[name]; "" stands for a missing key as well as an empty string, *)
(* both falsy.                                                             *)
FieldValue(fd, name) ==
  IF \E p \in fd.o : p[1] = name
    THEN (CHOOSE p \in fd.o : p[1] = name)[2]
    ELSE ""

(***************************************************************************)
(* Question payloads the server hands out: the question, its progress and  *)
(* its part.  progress = 0 / part = 0 stand for a payload without          *)
(* progress / part_info.                                                   *)
(***************************************************************************)
Question(id, type, required) == [id |-> id, type |-> type, required |-> required]
NoQuestion == Question(0, "none", FALSE)
Payload(q, progress, part) == [question |-> q, progress |-> progress, part |-> part]

Bank ==
  { Payload(Question(1, "text", TRUE), 1, 1),
    Payload(Question(2, "checkbox", FALSE), 2, 1),
    Payload(Question(3, "form", TRUE), 2, 2),
    Payload(Question(4, "upload", TRUE), 3, 2) }

NoPayload == Payload(NoQuestion, 0, 0)

(* The fields of a form question: f1 is required. *)
FieldRequired(name) == name = "f1"

(* {...x}: the spread of null is the empty object, written -1. *)
Spread(n) == IF n = 0 THEN -1 ELSE n

(***************************************************************************)
(* State of the wizard component (the refs of <script setup>), the browser *)
(* around it and the requests it has in flight.                            *)
(***************************************************************************)
VARIABLES
  loading,            \* loading ref
  error,              \* error ref is a non-empty string
  isSubmitting,
  isRegenerating,
  isUploading,
  sessionInfo,        \* sessionInfo.sessionId; "" before initialization
  currentQuestion,
  currentAnswer,
  currentAnswerArray,
  formData,
  uploadedFile,
  progress,           \* progress.current; 0 = null, -1 = {}
  partInfo,           \* partInfo.current; 0 = null, -1 = {}
  currentPart,
  currentSummary,     \* "" = null
  showSummaryReview,
  transitionMessage,  \* part whose name the message shows; 0 = null
  questionHistory,
  storage,            \* sessionStorage['questionnaire_session']
  route,              \* page the router shows
  inflight,           \* bag of requests awaiting their response
  initResult,         \* how the last run of initQuestionnaire ended
  authUser,           \* auth store: role of the signed-in user, "none" without a token
  authStorage,        \* what browser storage keeps of the auth store
  currentRoute,       \* name of the route the router shows; "" before the first navigation
  routeQuery,         \* route.query.redirect of that route; "" = undefined
  pending,            \* the navigation the router is resolving
  isLoading,          \* case detail view: isLoading ref
  caseData,           \* case detail view: caseData.case_status; "null" = null
  showRatingModal,    \* case detail view
  caseRequests,       \* bag of the case detail view's requests awaiting their response
  completionView,     \* which of the two completion views is open
  completionLoading,  \* completion view: loading ref
  completionError,    \* completion view: error ref is a non-empty string
  isFinalized,        \* completion view
  completionSubmitting, \* completion view: isSubmitting ref
  finalizationResult, \* completion view: "null", "success", "refused" or "failure"
  caseUuid,           \* completion view: "" = null
  createCase,         \* completion view: the publish-to-pool option
  completionRequests, \* bag of the completion view's requests awaiting their response
  toldFinalized,      \* the view has seen a finalize succeed or is_finalized reported
  formView,           \* which of the verification forms is open
  selectedFiles,      \* verification form: sizes (MB) of the selected files
  fileError,          \* verification form: fileError ref is a non-empty string
  checkingVerification, \* case pool view
  poolVerified,       \* case pool view: isVerified ref
  poolLoading,        \* case pool view: isLoading ref
  poolCases,          \* case pool view: cases ref, "none" = []
  filters,            \* case pool view: filters ref
  poolRequests,       \* bag of the case pool view's requests awaiting their response
  poolMounted         \* case pool view: onMounted has run

wizardVars == << loading, error, isSubmitting, isRegenerating, isUploading, sessionInfo,
           currentQuestion, currentAnswer, currentAnswerArray, formData, uploadedFile,
           progress, partInfo, currentPart, currentSummary, showSummaryReview,
           transitionMessage, questionHistory, storage, route,
                 inflight, initResult >>

routerVars == << authUser, authStorage, currentRoute, routeQuery, pending >>
caseVars == << isLoading, caseData, showRatingModal, caseRequests >>
(* What the wizard's handlers never touch. *)
completionVars == << completionView, completionLoading, completionError, isFinalized,
                    completionSubmitting, finalizationResult, caseUuid, createCase,
                    completionRequests, toldFinalized >>
formVars == << formView, selectedFiles, fileError >>
poolVars == << checkingVerification, poolVerified, poolLoading, poolCases, filters,
              poolRequests, poolMounted >>
viewVars == << completionVars, formVars, poolVars >>
appVars == << routerVars, caseVars, viewVars >>
vars == << wizardVars, appVars >>

answerVars == << currentAnswer, currentAnswerArray, formData, uploadedFile >>
questionVars == << currentQuestion, progress, partInfo >>
summaryVars == << currentSummary, showSummaryReview >>
busyVars == << isSubmitting, isRegenerating, isUploading >>

(* A navigation: the route it goes to, the redirect query it carries, the   *)
(* route a guard redirected it from ("" = none) and how far the guard is.  *)
Nav(to, query, from) == [to |-> to, query |-> query, redirectedFrom |-> from, pc |-> "guard"]
NoNav == [to |-> "", query |-> "", redirectedFrom |-> "", pc |-> "idle"]

(* While the wizard is followed the router rests on its route with a      *)
(* signed-in client, and no case detail view is open.                     *)
RouterIdle ==
  /\ authUser = "user"
  /\ authStorage = "user"
  /\ currentRoute = "Questionnaire"
  /\ routeQuery = ""
  /\ pending = NoNav

(* The refs of the case detail view as <script setup> creates them. *)
CaseCreated ==
  /\ isLoading = FALSE
  /\ caseData = "null"
  /\ showRatingModal = FALSE
  /\ caseRequests = EmptyBag

(* The refs of a completion view as <script setup> creates them          *)
(* (QuestionnaireCompletion.vue, lines 218-240).                         *)
CompletionCreated ==
  /\ completionLoading = TRUE
  /\ completionError = FALSE
  /\ isFinalized = FALSE
  /\ completionSubmitting = FALSE
  /\ finalizationResult = "null"
  /\ caseUuid = ""
  /\ createCase = FALSE
  /\ completionRequests = EmptyBag
  /\ toldFinalized = FALSE

(* The refs of a verification form (ProfessionalDashboard.vue, 324-325). *)
FormCreated ==
  /\ selectedFiles = << >>
  /\ fileError = FALSE

(* The refs of the case pool view (part_003, lines 263-268). *)
PoolCreated ==
  /\ checkingVerification = TRUE
  /\ poolVerified = FALSE
  /\ poolLoading = FALSE
  /\ poolCases = "none"
  /\ filters = [category |-> "", budget |-> "", sort |-> "newest"]
  /\ poolRequests = EmptyBag
  /\ poolMounted = FALSE

(* None of these views is in use. *)
ViewsCreated ==
  /\ completionView = "QuestionnaireCompletion"
  /\ CompletionCreated
  /\ formView = "ProfessionalDashboard"
  /\ FormCreated
  /\ PoolCreated

(* route.params.sessionId: the route /questionnaire/:sessionId always has one. *)
RouteSessionId == "s1"
Summaries == {"sum1"}

(* The entry launchQuestionnaire writes: the session id and the first     *)
(* question's payload (NoPayload when the start response carried none).    *)
(* It never writes an answers key.                                         *)
Stored(sid, p) == [present |-> TRUE, sessionId |-> sid, payload |-> p]
NoStored == [present |-> FALSE, sessionId |-> "", payload |-> NoPayload]

(* Entries the browser may hold when the wizard is opened: none, the one  *)
(* the start action wrote for this session, or one left by the start of   *)
(* another session; with or without a first question.                     *)
StoredSessionIds == {RouteSessionId, "s2"}
StoredEntries ==
  {NoStored} \cup {Stored(sid, p) : sid \in StoredSessionIds, p \in Bank \cup {NoPayload}}

(***************************************************************************)
(* Requests in flight.  A request keeps what it sent (payload fields) and, *)
(* for a submit, the question state at the moment it was issued.           *)
(***************************************************************************)
Req(kind, sid, qid, answer, file, snap) ==
  [kind |-> kind, sid |-> sid, qid |-> qid, answer |-> answer, file |-> file, snap |-> snap]
NoSnap == [question |-> NoQuestion, progress |-> 0, partInfo |-> 0, history |-> << >>]
NoFile == [name |-> "", size |-> 0]

InFlight(kind) == {r \in BagToSet(inflight) : r.kind = kind}
Count(kind) == BagCardinality([r \in InFlight(kind) |-> CopiesIn(r, inflight)])
Send(r) == inflight (+) SetToBag({r})
Resolve(r) == inflight (-) SetToBag({r})
Room == BagCardinality(inflight) < MaxInflight

(***************************************************************************)
(* Template: which box the v-if / v-else-if chain renders (lines 27-282).  *)
(***************************************************************************)
ErrorShown == ~loading /\ error
TransitionShown == ~loading /\ ~error /\ transitionMessage # 0
SummaryShown ==
  /\ ~loading /\ ~error /\ transitionMessage = 0
  /\ showSummaryReview /\ currentSummary # ""
QuestionShown ==
  /\ ~loading /\ ~error /\ transitionMessage = 0
  /\ ~(showSummaryReview /\ currentSummary # "")
  /\ currentQuestion # NoQuestion
Mounted == route = "wizard"

(***************************************************************************)
(* Computed properties (lines 380-412).                                    *)
(***************************************************************************)
canGoBack ==
  IF isSubmitting THEN FALSE
  ELSE IF Len(questionHistory) > 0 THEN TRUE
  ELSE IF progress # 0 /\ progress > 1 THEN TRUE
  ELSE FALSE

canSubmitOf(q, answer, answerArray, fd, file) ==
  IF q = NoQuestion THEN FALSE
  ELSE IF q.type = "message" THEN TRUE
  ELSE IF q.required # FALSE THEN
    IF q.type = "form" THEN
      \A f \in FieldNames :
        FieldRequired(f) => (FieldValue(fd, f) # "" /\ Trim(FieldValue(fd, f)) # "")
    ELSE IF q.type = "checkbox" THEN answerArray.a # {}
    ELSE IF q.type = "upload" THEN TRUE
    ELSE answer # Str("") /\ answer # Null
  ELSE TRUE

canSubmit == canSubmitOf(currentQuestion, currentAnswer, currentAnswerArray, formData, uploadedFile)

(* resetAnswers (lines 803-808) *)
ResetAnswers ==
  /\ currentAnswer' = Str("")
  /\ currentAnswerArray' = Arr({})
  /\ formData' = Obj({})
  /\ uploadedFile' = Null

(* router.push(`/questionnaire/${...}/complete`) *)
PushComplete == route' = "complete"

(***************************************************************************)
(* Responses of the backend.  The backend is outside the repository: a     *)
(* handler is given any response of the endpoint's set.  Each response is  *)
(* the record of the fields the handler reads; throws = the request        *)
(* rejected (network or HTTP error).                                       *)
(***************************************************************************)
StatusResponses ==
  {[throws |-> TRUE, status |-> ""], [throws |-> FALSE, status |-> "completed"],
   [throws |-> FALSE, status |-> "in_progress"]}

AnswerResp(throws, err, completed, show_summary, summary, current_part, template, payload) ==
  [throws |-> throws, error |-> err, completed |-> completed,
   show_summary |-> show_summary, summary |-> summary, current_part |-> current_part,
   template |-> template, payload |-> payload]
AnswerResponses ==
  {AnswerResp(TRUE, FALSE, FALSE, FALSE, "", 0, FALSE, NoPayload),
   AnswerResp(FALSE, TRUE, FALSE, FALSE, "", 0, FALSE, NoPayload),
   AnswerResp(FALSE, FALSE, TRUE, FALSE, "", 0, FALSE, NoPayload),
   AnswerResp(FALSE, FALSE, FALSE, FALSE, "", 0, TRUE, NoPayload),
   AnswerResp(FALSE, FALSE, FALSE, FALSE, "", 0, FALSE, NoPayload)} \cup
  {AnswerResp(FALSE, FALSE, FALSE, TRUE, s, 0, FALSE, NoPayload) : s \in Summaries} \cup
  {AnswerResp(FALSE, FALSE, FALSE, FALSE, "", 0, FALSE, p) : p \in Bank}

ValidateResp(throws, completed, template, summary, payload) ==
  [throws |-> throws, completed |-> completed, template |-> template,
   summary |-> summary, payload |-> payload]
ConfirmResponses ==
  {ValidateResp(TRUE, FALSE, FALSE, "", NoPayload),
   ValidateResp(FALSE, TRUE, FALSE, "", NoPayload),
   ValidateResp(FALSE, FALSE, TRUE, "", NoPayload),
   ValidateResp(FALSE, FALSE, FALSE, "", NoPayload)} \cup
  {ValidateResp(FALSE, FALSE, FALSE, "", p) : p \in Bank}
RegenerateResponses ==
  {ValidateResp(TRUE, FALSE, FALSE, "", NoPayload)} \cup
  {ValidateResp(FALSE, FALSE, FALSE, s, NoPayload) : s \in Summaries \cup {""}}

(* previous_answer of go-back: nothing, or the answer the wizard sent for  *)
(* that question (submitAnswer, lines 594-603), which the backend may hand *)
(* back wrapped as {value: ...}.                                           *)
PreviousAnswers(q) ==
  {Null} \cup
  CASE q.type = "checkbox" -> {Arr(a) : a \in SUBSET Options}
    [] q.type = "form" -> {Obj({<<"f1", "x">>})}
    [] q.type = "upload" -> {FileObj("small.pdf")}
    [] OTHER -> {Str("x"), Wrap("x")}
GoBackResp(throws, success, payload, previous_answer) ==
  [throws |-> throws, success |-> success, payload |-> payload,
   previous_answer |-> previous_answer]
GoBackResponses ==
  {GoBackResp(TRUE, FALSE, NoPayload, Null), GoBackResp(FALSE, FALSE, NoPayload, Null)} \cup
  UNION {{GoBackResp(FALSE, TRUE, p, a) : a \in PreviousAnswers(p.question)} : p \in Bank}

(* The resume response: answers is data.answers[data.question.id], the   *)
(* answer given before for the returned question (nothing when there is   *)
(* none, or no question).                                                 *)
ResumeResp(throws, success, status, payload, answers) ==
  [throws |-> throws, success |-> success, status |-> status, payload |-> payload,
   answers |-> answers]
ResumeResponses ==
  {ResumeResp(TRUE, FALSE, "", NoPayload, Null)} \cup
  {ResumeResp(FALSE, s, st, NoPayload, Null) :
     s \in BOOLEAN, st \in {"completed", "in_progress"}} \cup
  UNION {{ResumeResp(FALSE, s, st, p, a) :
            s \in BOOLEAN, st \in {"completed", "in_progress"},
            a \in PreviousAnswers(p.question)} : p \in Bank}

UploadResponses ==
  {[throws |-> TRUE, success |-> FALSE], [throws |-> FALSE, success |-> TRUE],
   [throws |-> FALSE, success |-> FALSE]}

(***************************************************************************)
(* Initial state: the refs as <script setup> creates them (lines 352-377), *)
(* before onMounted runs.  sessionStorage holds nothing, or the entry the  *)
(* start action wrote for this session with its first question.            *)
(***************************************************************************)
WizardInit ==
  /\ loading = TRUE
  /\ error = FALSE
  /\ isSubmitting = FALSE
  /\ isRegenerating = FALSE
  /\ isUploading = FALSE
  /\ sessionInfo = ""
  /\ currentQuestion = NoQuestion
  /\ currentAnswer = Str("")
  /\ currentAnswerArray = Arr({})
  /\ formData = Obj({})
  /\ uploadedFile = Null
  /\ progress = 0
  /\ partInfo = 0
  /\ currentPart = 1
  /\ currentSummary = ""
  /\ showSummaryReview = FALSE
  /\ transitionMessage = 0
  /\ questionHistory = << >>
  /\ storage \in {NoStored} \cup
       {Stored(RouteSessionId, p) : p \in Bank}
  /\ route = "wizard"
  /\ inflight = EmptyBag
  /\ initResult = "created"

Init ==
  /\ WizardInit
  /\ RouterIdle
  /\ CaseCreated
  /\ ViewsCreated

(* An initialization that shows the cached question and keeps the entry. *)
InitQuestionnaire_KeepsEntry ==
  LET storedSession == storage
      sessionId == RouteSessionId
  IN
  /\ error' = FALSE
  /\ sessionInfo' = IF storedSession.present THEN storedSession.sessionId ELSE sessionId
  /\ IF /\ storedSession.present
        /\ storedSession.payload.question # NoQuestion
        /\ storedSession.sessionId = sessionId
     THEN
       /\ currentQuestion' = storedSession.payload.question
       /\ progress' = storedSession.payload.progress
       /\ partInfo' = storedSession.payload.part
       /\ loading' = FALSE
       /\ initResult' = "question"
       /\ UNCHANGED appVars
       /\ UNCHANGED << inflight, storage >>
     ELSE
       /\ loading' = TRUE
       /\ inflight' = Send(Req("resume", sessionId, 0, Null, NoFile, NoSnap))
       /\ initResult' = "loading"
       /\ UNCHANGED appVars
       /\ UNCHANGED << questionVars, storage >>
  /\ UNCHANGED << answerVars, busyVars, summaryVars, currentPart, transitionMessage,
                  questionHistory, route >>

(* An initialization that shows any cached question, whatever its session. *)
InitQuestionnaire_AnyCachedQuestion ==
  LET storedSession == storage
      sessionId == RouteSessionId
  IN
  /\ error' = FALSE
  /\ sessionInfo' = IF storedSession.present THEN storedSession.sessionId ELSE sessionId
  /\ IF /\ storedSession.present
        /\ storedSession.payload.question # NoQuestion
     THEN
       /\ currentQuestion' = storedSession.payload.question
       /\ progress' = storedSession.payload.progress
       /\ partInfo' = storedSession.payload.part
       /\ storage' = NoStored
       /\ loading' = FALSE
       /\ initResult' = "question"
       /\ UNCHANGED appVars
       /\ UNCHANGED inflight
     ELSE
       /\ loading' = TRUE
       /\ inflight' = Send(Req("resume", sessionId, 0, Null, NoFile, NoSnap))
       /\ initResult' = "loading"
       /\ UNCHANGED appVars
       /\ UNCHANGED << questionVars, storage >>
  /\ UNCHANGED << answerVars, busyVars, summaryVars, currentPart, transitionMessage,
                  questionHistory, route >>

(***************************************************************************)
(* initQuestionnaire (lines 500-585), up to its first await.               *)
(***************************************************************************)
InitQuestionnaire ==
  LET storedSession == storage
      sessionId == RouteSessionId
  IN
  /\ error' = FALSE
  /\ sessionInfo' = IF storedSession.present THEN storedSession.sessionId ELSE sessionId
  /\ IF /\ storedSession.present
        /\ storedSession.payload.question # NoQuestion
        /\ storedSession.sessionId = sessionId
     THEN
       /\ currentQuestion' = storedSession.payload.question
       /\ progress' = storedSession.payload.progress
       /\ partInfo' = storedSession.payload.part
       /\ storage' = NoStored
       /\ loading' = FALSE
       /\ initResult' = "question"
       /\ UNCHANGED appVars
       /\ UNCHANGED inflight
     ELSE
       /\ loading' = TRUE
       /\ inflight' = Send(Req("resume", sessionId, 0, Null, NoFile, NoSnap))
       /\ initResult' = "loading"
       /\ UNCHANGED appVars
       /\ UNCHANGED << questionVars, storage >>
  /\ UNCHANGED << answerVars, busyVars, summaryVars, currentPart, transitionMessage,
                  questionHistory, route >>

(* onMounted (lines 894-896) *)
Mount ==
  /\ initResult = "created"
  /\ InitQuestionnaire

(* A retry button that only dismisses the error. *)
RetryInit_DismissOnly ==
  /\ Mounted /\ ErrorShown
  /\ error' = FALSE
  /\ UNCHANGED << appVars, initResult, loading, busyVars, sessionInfo, questionVars, answerVars,
                  summaryVars, currentPart, transitionMessage, questionHistory, storage,
                  route, inflight >>

(* retryInit (lines 873-875), the button of the error box *)
RetryInit ==
  /\ Mounted /\ ErrorShown
  /\ InitQuestionnaire

(* What the resume response reported, as the record of the run's end. *)
ResumeOutcome(data) ==
  IF data.throws THEN "error"
  ELSE IF data.success /\ data.status = "completed" THEN "resumeCompleted"
  ELSE IF data.success /\ data.payload.question # NoQuestion THEN "question"
  ELSE IF data.success THEN "error"
  ELSE "loading"

(* A resume handler that looks at the question before the status. *)
HandleResume_QuestionFirst(r, data) ==
  /\ r.kind = "resume" /\ BagIn(r, inflight)
  /\ initResult' = ResumeOutcome(data)
  /\ UNCHANGED appVars
  /\ inflight' = Resolve(r)
  /\ loading' = FALSE
  /\ IF ~data.throws /\ data.success /\ data.payload.question # NoQuestion THEN
       /\ currentQuestion' = data.payload.question
       /\ progress' = data.payload.progress
       /\ partInfo' = data.payload.part
       /\ UNCHANGED << error, route >>
     ELSE IF ~data.throws /\ data.success /\ data.status = "completed" THEN
       /\ PushComplete
       /\ UNCHANGED << questionVars, error >>
     ELSE
       /\ error' = TRUE
       /\ UNCHANGED << questionVars, route >>
  /\ UNCHANGED << answerVars, busyVars, summaryVars, sessionInfo, currentPart,
                  transitionMessage, questionHistory, storage >>

(* initQuestionnaire after the resume request resolved (lines 545-585).   *)
(* data.answers is only stored in sessionInfo.answers (lines 559-561),    *)
(* which nothing reads: no ref of the wizard changes with it.             *)
HandleResume(r, data) ==
  /\ r.kind = "resume" /\ BagIn(r, inflight)
  /\ initResult' = ResumeOutcome(data)
  /\ UNCHANGED appVars
  /\ IF data.throws THEN
       /\ error' = TRUE /\ loading' = FALSE
       /\ inflight' = Resolve(r)
       /\ UNCHANGED << questionVars, route >>
     ELSE IF data.success THEN
       IF data.status = "completed" THEN
         /\ PushComplete
         /\ loading' = FALSE
         /\ inflight' = Resolve(r)
         /\ UNCHANGED << questionVars, error >>
       ELSE IF data.payload.question # NoQuestion THEN
         /\ currentQuestion' = data.payload.question
         /\ progress' = data.payload.progress
         /\ partInfo' = data.payload.part
         /\ loading' = FALSE
         /\ inflight' = Resolve(r)
         /\ UNCHANGED << error, route >>
       ELSE
         /\ error' = TRUE /\ loading' = FALSE
         /\ inflight' = Resolve(r)
         /\ UNCHANGED << questionVars, route >>
     ELSE
       /\ inflight' = Resolve(r) (+) SetToBag({Req("status", r.sid, 0, Null, NoFile, NoSnap)})
       /\ UNCHANGED << questionVars, error, loading, route >>
  /\ UNCHANGED << answerVars, busyVars, summaryVars, sessionInfo, currentPart,
                  transitionMessage, questionHistory, storage >>

(* initQuestionnaire after the session status request resolved (567-584) *)
HandleStatus(r, statusData) ==
  /\ r.kind = "status" /\ BagIn(r, inflight)
  /\ inflight' = Resolve(r)
  /\ loading' = FALSE
  /\ IF statusData.throws THEN
       /\ error' = TRUE
       /\ initResult' = "error"
       /\ UNCHANGED appVars
       /\ UNCHANGED route
     ELSE IF statusData.status = "completed" THEN
       /\ PushComplete
       /\ initResult' = "statusCompleted"
       /\ UNCHANGED appVars
       /\ UNCHANGED error
     ELSE
       /\ error' = TRUE
       /\ initResult' = "error"
       /\ UNCHANGED appVars
       /\ UNCHANGED route
  /\ UNCHANGED << questionVars, answerVars, busyVars, summaryVars, sessionInfo, currentPart,
                  transitionMessage, questionHistory, storage >>

(***************************************************************************)
(* The user fills the input the question box renders for the question's    *)
(* type (v-model, lines 78-252).                                           *)
(***************************************************************************)
EditAnswer(s) ==
  /\ Mounted /\ QuestionShown
  /\ currentQuestion.type \in {"radio", "select", "text", "textarea"}
  /\ currentAnswer' = Str(s)
  /\ UNCHANGED << appVars, initResult, loading, error, busyVars, sessionInfo, questionVars, currentAnswerArray,
                  formData, uploadedFile, currentPart, summaryVars, transitionMessage,
                  questionHistory, storage, route, inflight >>

ToggleOption(o) ==
  /\ Mounted /\ QuestionShown
  /\ currentQuestion.type = "checkbox"
  /\ currentAnswerArray' =
       IF o \in currentAnswerArray.a THEN Arr(currentAnswerArray.a \ {o})
       ELSE Arr(currentAnswerArray.a \cup {o})
  /\ UNCHANGED << appVars, initResult, loading, error, busyVars, sessionInfo, questionVars, currentAnswer,
                  formData, uploadedFile, currentPart, summaryVars, transitionMessage,
                  questionHistory, storage, route, inflight >>

EditField(name, s) ==
  /\ Mounted /\ QuestionShown
  /\ currentQuestion.type = "form"
  /\ formData' = Obj({p \in formData.o : p[1] # name} \cup {<<name, s>>})
  /\ UNCHANGED << appVars, initResult, loading, error, busyVars, sessionInfo, questionVars, currentAnswer,
                  currentAnswerArray, uploadedFile, currentPart, summaryVars,
                  transitionMessage, questionHistory, storage, route, inflight >>

(***************************************************************************)
(* submitAnswer (lines 587-673), up to its await: the click on the submit  *)
(* button, which the template disables while !canSubmit || isSubmitting.   *)
(***************************************************************************)
(* An answer value that unwraps a checkbox answer holding no or one label. *)
AnswerValue_Unwrap ==
  IF currentQuestion.type = "checkbox" THEN
    IF currentAnswerArray.a = {} THEN Null
    ELSE IF Cardinality(currentAnswerArray.a) = 1
      THEN Str(CHOOSE o \in currentAnswerArray.a : TRUE)
    ELSE currentAnswerArray
  ELSE IF currentQuestion.type = "form" THEN formData
  ELSE IF currentQuestion.type = "upload" THEN uploadedFile
  ELSE currentAnswer

AnswerValue ==
  IF currentQuestion.type = "checkbox" THEN currentAnswerArray
  ELSE IF currentQuestion.type = "form" THEN formData
  ELSE IF currentQuestion.type = "upload" THEN uploadedFile
  ELSE currentAnswer

HistoryEntry(q, answer, prog, part) ==
  [question |-> q, answer |-> answer, progress |-> prog, partInfo |-> part]

FileData ==
  IF currentQuestion.type = "upload" /\ uploadedFile # Null
    THEN [name |-> uploadedFile.f, size |-> 0]
    ELSE NoFile

(* A submit that shows the next question of the bank before the server answers. *)
SubmitAnswer_LocalAdvance ==
  /\ Mounted /\ QuestionShown
  /\ canSubmit /\ ~isSubmitting
  /\ Len(questionHistory) < MaxHistory /\ Room
  /\ isSubmitting' = TRUE
  /\ questionHistory' = Append(questionHistory,
       HistoryEntry(currentQuestion, AnswerValue, Spread(progress), Spread(partInfo)))
  /\ inflight' = Send(Req("answer", sessionInfo, currentQuestion.id, AnswerValue, FileData,
       [question |-> currentQuestion, progress |-> progress, partInfo |-> partInfo,
        history |-> questionHistory]))
  /\ \E p \in Bank :
       /\ p.question # currentQuestion
       /\ currentQuestion' = p.question
  /\ UNCHANGED << appVars, initResult, loading, error, isRegenerating, isUploading, sessionInfo,
                  progress, partInfo, answerVars, currentPart, summaryVars,
                  transitionMessage, storage, route >>

SubmitAnswer ==
  /\ Mounted /\ QuestionShown
  /\ canSubmit /\ ~isSubmitting
  /\ Len(questionHistory) < MaxHistory /\ Room
  /\ isSubmitting' = TRUE
  /\ questionHistory' = Append(questionHistory,
       HistoryEntry(currentQuestion, AnswerValue, Spread(progress), Spread(partInfo)))
  /\ inflight' = Send(Req("answer", sessionInfo, currentQuestion.id, AnswerValue, FileData,
       [question |-> currentQuestion, progress |-> progress, partInfo |-> partInfo,
        history |-> questionHistory]))
  /\ UNCHANGED << appVars, initResult, loading, error, isRegenerating, isUploading, sessionInfo, questionVars,
                  answerVars, currentPart, summaryVars, transitionMessage, storage, route >>

(* questionHistory.value.pop() *)
Pop(h) == IF Len(h) = 0 THEN h ELSE SubSeq(h, 1, Len(h) - 1)

(* submitAnswer after the answer request resolved (lines 631-672) *)
HandleAnswer(r, data) ==
  /\ r.kind = "answer" /\ BagIn(r, inflight)
  /\ inflight' = Resolve(r)
  /\ isSubmitting' = FALSE
  /\ IF data.throws \/ data.error THEN
       /\ questionHistory' = Pop(questionHistory)
       /\ UNCHANGED << questionVars, answerVars, summaryVars, currentPart,
                       transitionMessage, storage, route >>
     ELSE IF data.completed THEN
       /\ storage' = NoStored
       /\ PushComplete
       /\ UNCHANGED << questionVars, answerVars, summaryVars, currentPart,
                       transitionMessage, questionHistory >>
     ELSE IF data.show_summary THEN
       /\ showSummaryReview' = TRUE
       /\ currentSummary' = data.summary
       /\ currentPart' = IF data.current_part # 0 THEN data.current_part ELSE currentPart
       /\ UNCHANGED << questionVars, answerVars, transitionMessage, questionHistory,
                       storage, route >>
     ELSE IF data.template THEN
       /\ storage' = NoStored
       /\ PushComplete
       /\ UNCHANGED << questionVars, answerVars, summaryVars, currentPart,
                       transitionMessage, questionHistory >>
     ELSE IF data.payload.question # NoQuestion THEN
       /\ currentQuestion' = data.payload.question
       /\ progress' = data.payload.progress
       /\ partInfo' = data.payload.part
       /\ ResetAnswers
       /\ IF data.payload.part # 0 /\ currentPart # data.payload.part THEN
            /\ currentPart' = data.payload.part
            /\ transitionMessage' = data.payload.part
          ELSE UNCHANGED << currentPart, transitionMessage >>
       /\ UNCHANGED << summaryVars, questionHistory, storage, route >>
     ELSE
       /\ UNCHANGED << questionVars, answerVars, summaryVars, currentPart,
                       transitionMessage, questionHistory, storage, route >>
  /\ UNCHANGED << appVars, initResult, loading, error, isRegenerating, isUploading, sessionInfo >>

(* continueToNext (lines 675-677), the button of the transition box *)
ContinueToNext ==
  /\ Mounted /\ TransitionShown
  /\ transitionMessage' = 0
  /\ UNCHANGED << appVars, initResult, loading, error, busyVars, sessionInfo, questionVars, answerVars,
                  currentPart, summaryVars, questionHistory, storage, route, inflight >>

(* The setTimeout callback of line 660.  Every assignment of a message    *)
(* starts a timer, so a timer is pending whenever a message is set; a     *)
(* callback that finds no message changes nothing.                        *)
TransitionTimeout ==
  /\ transitionMessage # 0
  /\ transitionMessage' = 0
  /\ UNCHANGED << appVars, initResult, loading, error, busyVars, sessionInfo, questionVars, answerVars,
                  currentPart, summaryVars, questionHistory, storage, route, inflight >>

(***************************************************************************)
(* confirmSummary (lines 679-714): the confirm button of the summary box   *)
(* carries no :disabled and the function no guard.                         *)
(***************************************************************************)
ConfirmSummary ==
  /\ Mounted /\ SummaryShown
  /\ Room
  /\ isSubmitting' = TRUE
  /\ inflight' = Send(Req("confirm", sessionInfo, 0, Null, NoFile, NoSnap))
  /\ UNCHANGED << appVars, initResult, loading, error, isRegenerating, isUploading, sessionInfo, questionVars,
                  answerVars, currentPart, summaryVars, transitionMessage, questionHistory,
                  storage, route >>

HandleConfirm(r, data) ==
  /\ r.kind = "confirm" /\ BagIn(r, inflight)
  /\ inflight' = Resolve(r)
  /\ isSubmitting' = FALSE
  /\ IF data.throws THEN
       /\ UNCHANGED << questionVars, answerVars, summaryVars, storage, route >>
     ELSE
       /\ showSummaryReview' = FALSE
       /\ currentSummary' = ""
       /\ IF data.completed THEN
            /\ storage' = NoStored
            /\ PushComplete
            /\ UNCHANGED << questionVars, answerVars >>
          ELSE IF data.payload.question # NoQuestion THEN
            /\ currentQuestion' = data.payload.question
            /\ progress' = data.payload.progress
            /\ partInfo' = data.payload.part
            /\ ResetAnswers
            /\ UNCHANGED << storage, route >>
          ELSE IF data.template THEN
            /\ storage' = NoStored
            /\ PushComplete
            /\ UNCHANGED << questionVars, answerVars >>
          ELSE
            /\ UNCHANGED << questionVars, answerVars, storage, route >>
  /\ UNCHANGED << appVars, initResult, loading, error, isRegenerating, isUploading, sessionInfo, currentPart,
                  transitionMessage, questionHistory >>

(* requestRegenerate (lines 716-735); its button is disabled while isRegenerating *)
RequestRegenerate ==
  /\ Mounted /\ SummaryShown
  /\ ~isRegenerating /\ Room
  /\ isRegenerating' = TRUE
  /\ inflight' = Send(Req("regenerate", sessionInfo, 0, Null, NoFile, NoSnap))
  /\ UNCHANGED << appVars, initResult, loading, error, isSubmitting, isUploading, sessionInfo, questionVars,
                  answerVars, currentPart, summaryVars, transitionMessage, questionHistory,
                  storage, route >>

HandleRegenerate(r, data) ==
  /\ r.kind = "regenerate" /\ BagIn(r, inflight)
  /\ inflight' = Resolve(r)
  /\ isRegenerating' = FALSE
  /\ IF ~data.throws /\ data.summary # "" THEN currentSummary' = data.summary
     ELSE UNCHANGED currentSummary
  /\ UNCHANGED << appVars, initResult, loading, error, isSubmitting, isUploading, sessionInfo, questionVars,
                  answerVars, currentPart, showSummaryReview, transitionMessage,
                  questionHistory, storage, route >>

(***************************************************************************)
(* goToPrevious (lines 737-801): the previous button, rendered when        *)
(* canGoBack and disabled while isSubmitting.                              *)
(***************************************************************************)
GoToPrevious ==
  /\ Mounted /\ QuestionShown
  /\ canGoBack /\ ~isSubmitting
  /\ Room
  /\ isSubmitting' = TRUE
  /\ inflight' = Send(Req("goback", sessionInfo, 0, Null, NoFile, NoSnap))
  /\ UNCHANGED << appVars, initResult, loading, error, isRegenerating, isUploading, sessionInfo, questionVars,
                  answerVars, currentPart, summaryVars, transitionMessage, questionHistory,
                  storage, route >>

(* {...x} of a form answer *)
SpreadObject(v) == IF v.k = "obj" THEN v ELSE Obj({})

(* A restore that keeps a wrapped previous answer as the object it is. *)
RestoreFromServer_NoUnwrap(data) ==
  LET q == data.payload.question
      prevAnswer == data.previous_answer
  IN
  /\ currentQuestion' = q
  /\ progress' = data.payload.progress
  /\ partInfo' = data.payload.part
  /\ IF prevAnswer # Null THEN
       IF q.type = "checkbox" THEN
         /\ currentAnswerArray' = IF IsArray(prevAnswer) THEN prevAnswer ELSE Arr({})
         /\ UNCHANGED << currentAnswer, formData, uploadedFile >>
       ELSE IF q.type = "form" THEN
         /\ formData' = IF IsObject(prevAnswer) THEN SpreadObject(prevAnswer) ELSE formData
         /\ UNCHANGED << currentAnswer, currentAnswerArray, uploadedFile >>
       ELSE
         /\ currentAnswer' = prevAnswer
         /\ UNCHANGED << currentAnswerArray, formData, uploadedFile >>
     ELSE ResetAnswers
  /\ UNCHANGED questionHistory

(* lines 748-774: the response reports success *)
RestoreFromServer(data) ==
  LET q == data.payload.question
      prevAnswer == data.previous_answer
  IN
  /\ currentQuestion' = q
  /\ progress' = data.payload.progress
  /\ partInfo' = data.payload.part
  /\ IF prevAnswer # Null THEN
       IF q.type = "checkbox" THEN
         /\ currentAnswerArray' = IF IsArray(prevAnswer) THEN prevAnswer ELSE Arr({})
         /\ UNCHANGED << currentAnswer, formData, uploadedFile >>
       ELSE IF q.type = "form" THEN
         /\ formData' = IF IsObject(prevAnswer) THEN SpreadObject(prevAnswer) ELSE formData
         /\ UNCHANGED << currentAnswer, currentAnswerArray, uploadedFile >>
       ELSE
         /\ currentAnswer' = IF prevAnswer.k = "wrap" THEN Str(prevAnswer.s) ELSE prevAnswer
         /\ UNCHANGED << currentAnswerArray, formData, uploadedFile >>
     ELSE ResetAnswers
  /\ UNCHANGED questionHistory

(* lines 783-797: the catch block's fallback to the local history *)
RestoreFromHistory ==
  IF Len(questionHistory) > 0 THEN
    LET lastEntry == questionHistory[Len(questionHistory)] IN
    /\ questionHistory' = Pop(questionHistory)
    /\ currentQuestion' = lastEntry.question
    /\ progress' = lastEntry.progress
    /\ partInfo' = lastEntry.partInfo
    /\ IF lastEntry.question.type = "checkbox" THEN
         /\ currentAnswerArray' = IF IsArray(lastEntry.answer) THEN lastEntry.answer ELSE Arr({})
         /\ UNCHANGED << currentAnswer, formData, uploadedFile >>
       ELSE IF lastEntry.question.type = "form" THEN
         /\ formData' = SpreadObject(lastEntry.answer)
         /\ UNCHANGED << currentAnswer, currentAnswerArray, uploadedFile >>
       ELSE
         /\ currentAnswer' = lastEntry.answer
         /\ UNCHANGED << currentAnswerArray, formData, uploadedFile >>
  ELSE UNCHANGED << questionVars, answerVars, questionHistory >>

HandleGoBack(r, data) ==
  /\ r.kind = "goback" /\ BagIn(r, inflight)
  /\ inflight' = Resolve(r)
  /\ isSubmitting' = FALSE
  /\ IF data.throws THEN
       /\ RestoreFromHistory
     ELSE IF data.success THEN
       /\ RestoreFromServer(data)
     ELSE
       /\ UNCHANGED << questionVars, answerVars, questionHistory >>
  /\ UNCHANGED << appVars, initResult, loading, error, isRegenerating, isUploading, sessionInfo, currentPart,
                  summaryVars, transitionMessage, storage, route >>

(***************************************************************************)
(* processFile (lines 821-860), reached from handleFileSelect and          *)
(* handleFileDrop (lines 810-819) with the chosen file.                    *)
(***************************************************************************)
ProcessFile(file) ==
  /\ Mounted /\ QuestionShown
  /\ currentQuestion.type = "upload"
  /\ Room
  /\ isUploading' = TRUE
  /\ uploadedFile' = FileObj(file.name)
  /\ inflight' = Send(Req("upload", sessionInfo, currentQuestion.id, Null, file, NoSnap))
  /\ UNCHANGED << appVars, initResult, loading, error, isSubmitting, isRegenerating, sessionInfo, questionVars,
                  currentAnswer, currentAnswerArray, formData, currentPart, summaryVars,
                  transitionMessage, questionHistory, storage, route >>

(* An upload handler without the finally block: the flag is cleared on  *)
(* success only.                                                       *)
HandleUpload_NoFinally(r, data) ==
  /\ r.kind = "upload" /\ BagIn(r, inflight)
  /\ inflight' = Resolve(r)
  /\ IF ~data.throws /\ data.success THEN
       /\ uploadedFile' = FileObj(uploadedFile.f)
       /\ isUploading' = FALSE
     ELSE
       /\ uploadedFile' = Null
       /\ UNCHANGED isUploading
  /\ UNCHANGED << appVars, initResult, loading, error, isSubmitting, isRegenerating, sessionInfo, questionVars,
                  currentAnswer, currentAnswerArray, formData, currentPart, summaryVars,
                  transitionMessage, questionHistory, storage, route >>

HandleUpload(r, data) ==
  /\ r.kind = "upload" /\ BagIn(r, inflight)
  /\ inflight' = Resolve(r)
  /\ isUploading' = FALSE
  /\ IF ~data.throws /\ data.success THEN
       /\ uploadedFile' = FileObj(uploadedFile.f)
     ELSE
       /\ uploadedFile' = Null
  /\ UNCHANGED << appVars, initResult, loading, error, isSubmitting, isRegenerating, sessionInfo, questionVars,
                  currentAnswer, currentAnswerArray, formData, currentPart, summaryVars,
                  transitionMessage, questionHistory, storage, route >>

(* removeFile (lines 862-864), the button beside the uploaded file *)
RemoveFile ==
  /\ Mounted /\ QuestionShown
  /\ currentQuestion.type = "upload" /\ uploadedFile # Null
  /\ uploadedFile' = Null
  /\ UNCHANGED << appVars, initResult, loading, error, busyVars, sessionInfo, questionVars, currentAnswer,
                  currentAnswerArray, formData, currentPart, summaryVars, transitionMessage,
                  questionHistory, storage, route, inflight >>

Requests == BagToSet(inflight)

Next ==
  \/ Mount
  \/ RetryInit
  \/ \E r \in Requests, data \in ResumeResponses : HandleResume(r, data)
  \/ \E r \in Requests, data \in StatusResponses : HandleStatus(r, data)
  \/ \E s \in TextInputs : EditAnswer(s)
  \/ \E o \in Options : ToggleOption(o)
  \/ \E name \in FieldNames, s \in FieldInputs : EditField(name, s)
  \/ SubmitAnswer
  \/ \E r \in Requests, data \in AnswerResponses : HandleAnswer(r, data)
  \/ ContinueToNext
  \/ TransitionTimeout
  \/ ConfirmSummary
  \/ \E r \in Requests, data \in ConfirmResponses : HandleConfirm(r, data)
  \/ RequestRegenerate
  \/ \E r \in Requests, data \in RegenerateResponses : HandleRegenerate(r, data)
  \/ GoToPrevious
  \/ \E r \in Requests, data \in GoBackResponses : HandleGoBack(r, data)
  \/ \E file \in Files : ProcessFile(file)
  \/ \E r \in Requests, data \in UploadResponses : HandleUpload(r, data)
  \/ RemoveFile

Spec == Init /\ [][Next]_vars

(***************************************************************************)
(* Opening the wizard.  Spec follows one instance of the component; here   *)
(* the page is opened again and again (a new instance each time, over the  *)
(* same sessionStorage) and followed up to the user's first input.         *)
(***************************************************************************)
(* The refs of a new instance (lines 352-377); the requests of an earlier  *)
(* instance no longer reach it.                                            *)
Construct ==
  /\ loading' = TRUE
  /\ error' = FALSE
  /\ isSubmitting' = FALSE
  /\ isRegenerating' = FALSE
  /\ isUploading' = FALSE
  /\ sessionInfo' = ""
  /\ currentQuestion' = NoQuestion
  /\ ResetAnswers
  /\ progress' = 0
  /\ partInfo' = 0
  /\ currentPart' = 1
  /\ currentSummary' = ""
  /\ showSummaryReview' = FALSE
  /\ transitionMessage' = 0
  /\ questionHistory' = << >>
  /\ route' = "wizard"
  /\ inflight' = EmptyBag
  /\ initResult' = "created"
  /\ UNCHANGED appVars

(* The user reloads the page or opens /questionnaire/:sessionId again. *)
Reopen ==
  /\ initResult # "created"
  /\ Construct
  /\ UNCHANGED storage

(* launchQuestionnaire of the dashboard (Dashboard.vue, lines 138-154)    *)
(* once the start request answered success: it writes the entry and opens *)
(* the wizard.                                                            *)
LaunchQuestionnaire(p) ==
  /\ initResult # "created"
  /\ Construct
  /\ storage' = Stored(RouteSessionId, p)

OpenInit ==
  /\ loading = TRUE
  /\ error = FALSE
  /\ isSubmitting = FALSE
  /\ isRegenerating = FALSE
  /\ isUploading = FALSE
  /\ sessionInfo = ""
  /\ currentQuestion = NoQuestion
  /\ currentAnswer = Str("")
  /\ currentAnswerArray = Arr({})
  /\ formData = Obj({})
  /\ uploadedFile = Null
  /\ progress = 0
  /\ partInfo = 0
  /\ currentPart = 1
  /\ currentSummary = ""
  /\ showSummaryReview = FALSE
  /\ transitionMessage = 0
  /\ questionHistory = << >>
  /\ storage \in StoredEntries
  /\ route = "wizard"
  /\ inflight = EmptyBag
  /\ initResult = "created"
  /\ RouterIdle
  /\ CaseCreated
  /\ ViewsCreated

OpenNext ==
  \/ \E p \in Bank \cup {NoPayload} : LaunchQuestionnaire(p)
  \/ Reopen
  \/ Mount
  \/ RetryInit
  \/ \E r \in Requests, data \in ResumeResponses : HandleResume(r, data)
  \/ \E r \in Requests, data \in StatusResponses : HandleStatus(r, data)
  \/ \E s \in TextInputs : EditAnswer(s)
  \/ \E o \in Options : ToggleOption(o)
  \/ \E name \in FieldNames, s \in FieldInputs : EditField(name, s)

OpenSpec == OpenInit /\ [][OpenNext]_vars

(***************************************************************************)
(* The wizard opened for this session while sessionStorage still holds the *)
(* entry the start of another session left: launchQuestionnaire wrote it   *)
(* without a first question, so that session's wizard never removed it     *)
(* (line 538 is reached on a cache hit only).                              *)
(***************************************************************************)
StaleCacheInit ==
  /\ OpenInit
  /\ storage = Stored("s2", NoPayload)

StaleCacheSpec == StaleCacheInit /\ [][Next]_vars

(***************************************************************************)
(* The router and its guard (AdminDashboard.vue, lines 100-268).  The auth *)
(* store the guard consults is used but not defined by these sources: it   *)
(* is taken as a store of token and role, backed by browser storage.       *)
(***************************************************************************)
Roles == {"user", "professional", "admin"}

(* A route record: meta.roles = {} stands for a meta without roles, and   *)
(* requiresAuth = FALSE also for a meta without requiresAuth (falsy).     *)
Route(path, requiresAuth, roles) ==
  [path |-> path, requiresAuth |-> requiresAuth, roles |-> roles]

(* The routes by name (lines 107-230), :sessionId and :id filled in. *)
RouteTable ==
  "Login" :> Route("/login", FALSE, {}) @@
  "Dashboard" :> Route("/dashboard", TRUE, {"user"}) @@
  "NewCase" :> Route("/cases/new", TRUE, {"user"}) @@
  "Questionnaire" :> Route("/questionnaire/s1", TRUE, {"user"}) @@
  "QuestionnaireCompletion" :> Route("/questionnaire/s1/complete", TRUE, {"user"}) @@
  "CaseDetail" :> Route("/case/c1", TRUE, {}) @@
  "Profile" :> Route("/profile", TRUE, {}) @@
  "ProfessionalDashboard" :> Route("/professional", TRUE, {"professional"}) @@
  "ProfessionalVerification" :> Route("/professional/verification", TRUE, {"professional"}) @@
  "ProfessionalProfile" :> Route("/professional/profile", TRUE, {"professional"}) @@
  "MyCases" :> Route("/professional/my-cases", TRUE, {"professional"}) @@
  "CasePool" :> Route("/case-pool", TRUE, {"professional"}) @@
  "AdminDashboard" :> Route("/admin", TRUE, {"admin"}) @@
  "UserManagement" :> Route("/admin/users", TRUE, {"admin"}) @@
  "CaseMonitoring" :> Route("/admin/cases", TRUE, {"admin"}) @@
  "VerificationManagement" :> Route("/admin/verifications", TRUE, {"admin"}) @@
  "Unauthorized" :> Route("/unauthorized", FALSE, {}) @@
  "NotFound" :> Route("/no-such-page", FALSE, {})

RouteNames == DOMAIN RouteTable

(* to.fullPath of a navigation without query, and the route a path resolves to. *)
FullPath(name) == RouteTable[name].path
RouteOfPath(path) == CHOOSE name \in RouteNames : RouteTable[name].path = path

(* The auth store: authenticated with a token, the role is the user's. *)
IsAuthenticated == authUser # "none"
UserRole == authUser

(* authStore.init(): restores the session browser storage keeps, if any. *)
AuthInit ==
  /\ authUser' = authStorage
  /\ UNCHANGED authStorage

(* authStore.setTokens and authStore.setUser: both kept in browser storage. *)
SetAuth(role) ==
  /\ authUser' = role
  /\ authStorage' = role

(* authStore.clearAuth() *)
ClearAuth ==
  /\ authUser' = "none"
  /\ authStorage' = "none"

(* Lines 260-262: the dashboard of a role. *)
RoleHome(role) ==
  IF role = "admin" THEN "AdminDashboard"
  ELSE IF role = "professional" THEN "ProfessionalDashboard"
  ELSE "Dashboard"

(* next(): the navigation is confirmed. *)
Proceed ==
  /\ currentRoute' = pending.to
  /\ routeQuery' = pending.query
  /\ pending' = NoNav

(* next({ name, query }): the navigation is dropped for a new one. *)
Redirect(to, query) ==
  /\ pending' = Nav(to, query, pending.to)
  /\ UNCHANGED << currentRoute, routeQuery >>

(* A guard that lets everyone who went through init() pass. *)
Decide_NoRecheck(to, authenticated, role) ==
  LET meta == RouteTable[to] IN
  IF meta.requiresAuth /\ meta.roles # {} /\ authenticated /\ role \notin meta.roles
    THEN Redirect("Unauthorized", "")
  ELSE IF to = "Login" /\ authenticated THEN Redirect(RoleHome(role), "")
  ELSE Proceed

(* A guard that checks the role of administration routes only. *)
Decide_AdminOnly(to, authenticated, role) ==
  LET meta == RouteTable[to] IN
  IF meta.requiresAuth /\ ~authenticated THEN Redirect("Login", FullPath(to))
  ELSE IF meta.requiresAuth /\ meta.roles = {"admin"} /\ role \notin meta.roles
    THEN Redirect("Unauthorized", "")
  ELSE IF to = "Login" /\ authenticated THEN Redirect(RoleHome(role), "")
  ELSE Proceed

(* A guard that sends a signed-in user away from the Unauthorized page. *)
Decide_LeaveUnauthorized(to, authenticated, role) ==
  LET meta == RouteTable[to] IN
  IF meta.requiresAuth /\ ~authenticated THEN Redirect("Login", FullPath(to))
  ELSE IF meta.requiresAuth /\ meta.roles # {} /\ role \notin meta.roles
    THEN Redirect("Unauthorized", "")
  ELSE IF to \in {"Login", "Unauthorized"} /\ authenticated THEN Redirect(RoleHome(role), "")
  ELSE Proceed

(* Lines 248-265: what the guard does with the navigation once the store  *)
(* has been asked, given what the store answers.                          *)
Decide(to, authenticated, role) ==
  LET meta == RouteTable[to] IN
  IF meta.requiresAuth /\ ~authenticated THEN Redirect("Login", FullPath(to))
  ELSE IF meta.requiresAuth /\ meta.roles # {} /\ role \notin meta.roles
    THEN Redirect("Unauthorized", "")
  ELSE IF to = "Login" /\ authenticated THEN Redirect(RoleHome(role), "")
  ELSE Proceed

(* router.beforeEach up to its await (lines 241-247), or to its end when  *)
(* it does not await.                                                     *)
BeforeEach ==
  /\ pending.pc = "guard"
  /\ IF RouteTable[pending.to].requiresAuth /\ ~IsAuthenticated
       THEN /\ pending' = [pending EXCEPT !.pc = "init"]
            /\ UNCHANGED << currentRoute, routeQuery >>
       ELSE Decide(pending.to, IsAuthenticated, UserRole)
  /\ UNCHANGED << authUser, authStorage, wizardVars, caseVars, viewVars >>

(* authStore.init() resolves and the guard goes on (lines 247-265). *)
InitDone ==
  /\ pending.pc = "init"
  /\ AuthInit
  /\ Decide(pending.to, IsAuthenticated', UserRole')
  /\ UNCHANGED << wizardVars, caseVars, viewVars >>

(* A link, router.push or the address bar starts a navigation; it takes   *)
(* the place of the one being resolved.                                   *)
Navigate(to) ==
  /\ pending' = Nav(to, "", "")
  /\ UNCHANGED << authUser, authStorage, currentRoute, routeQuery, wizardVars, caseVars, viewVars >>

(* route.query.redirect.includes('/dashboard'), over the paths of the table. *)
IncludesDashboard(path) == path = "/dashboard"

(* handleLogin of the login view once /auth/login answered with a token   *)
(* (VerificationManagement.vue, lines 1399-1417).                         *)
HandleLogin(role) ==
  /\ currentRoute = "Login"
  /\ SetAuth(role)
  /\ IF routeQuery # "" /\ ~IncludesDashboard(routeQuery)
       THEN pending' = Nav(RouteOfPath(routeQuery), "", "")
       ELSE pending' = Nav(RoleHome(role), "", "")
  /\ UNCHANGED << currentRoute, routeQuery, wizardVars, caseVars, viewVars >>

(* logout of the sidebar (lines 326-329). *)
Logout ==
  /\ currentRoute # ""
  /\ RouteTable[currentRoute].requiresAuth
  /\ ClearAuth
  /\ pending' = Nav("Login", "", "")
  /\ UNCHANGED << currentRoute, routeQuery, wizardVars, caseVars, viewVars >>

(* The page is loaded again: the store starts empty and the router        *)
(* resolves the address it is on.                                         *)
Reload ==
  /\ currentRoute # ""
  /\ authUser' = "none"
  /\ pending' = Nav(currentRoute, routeQuery, "")
  /\ currentRoute' = ""
  /\ routeQuery' = ""
  /\ UNCHANGED << authStorage, wizardVars, caseVars, viewVars >>

(* The application is opened: nothing shown yet, the store empty, browser *)
(* storage with or without an earlier session.                            *)
RouterInit ==
  /\ WizardInit
  /\ storage = NoStored
  /\ CaseCreated
  /\ ViewsCreated
  /\ authUser = "none"
  /\ authStorage \in {"none"} \cup Roles
  /\ currentRoute = ""
  /\ routeQuery = ""
  /\ pending = NoNav

RouterNext ==
  \/ \E to \in RouteNames : Navigate(to)
  \/ BeforeEach
  \/ InitDone
  \/ \E role \in Roles : HandleLogin(role)
  \/ Logout
  \/ Reload

RouterSpec == RouterInit /\ [][RouterNext]_vars

(***************************************************************************)
(* One navigation followed through the guard: any target, any state of the *)
(* auth store and of browser storage, any role (also one the route table   *)
(* does not name), and nothing else going on.  The guard's continuations   *)
(* are promise reactions, which the event loop always runs.                *)
(***************************************************************************)
AnyRoles == Roles \cup {"other"}

GuardInit ==
  /\ WizardInit
  /\ storage = NoStored
  /\ CaseCreated
  /\ ViewsCreated
  /\ authUser \in {"none"} \cup AnyRoles
  /\ authStorage \in {"none"} \cup AnyRoles
  /\ currentRoute = ""
  /\ routeQuery = ""
  /\ \E to \in RouteNames : pending = Nav(to, "", "")

GuardNext ==
  \/ BeforeEach
  \/ InitDone

GuardSpec ==
  GuardInit /\ [][GuardNext]_vars /\ WF_vars(BeforeEach) /\ WF_vars(InitDone)

(***************************************************************************)
(* The case detail view (CaseDetail.vue).  The backend answers a request   *)
(* with success or an error, and a load with the case in any status.       *)
(***************************************************************************)
MaxCaseRequests == 2

(* The lifecycle statuses the view knows (getStatusText, lines 397-405). *)
Statuses == {"pending", "in_progress", "completed", "cancelled"}

(* A request of the view; shown is the status displayed when it was sent. *)
CaseReq(kind, shown) == [kind |-> kind, shown |-> shown]
CaseRoom == BagCardinality(caseRequests) < MaxCaseRequests
CaseRequests == BagToSet(caseRequests)

(* GET /cases/:id answers with the case, or fails. *)
LoadResponses ==
  {[throws |-> TRUE, case_status |-> "null"]} \cup
  {[throws |-> FALSE, case_status |-> st] : st \in Statuses}

(* Template lines 27 and 38: the grid with the actions card is rendered. *)
CaseShown ==
  /\ currentRoute = "CaseDetail"
  /\ ~isLoading
  /\ caseData # "null"

(* Template lines 112-126: what a client is offered. *)
CancelOffered == CaseShown /\ UserRole = "user" /\ caseData = "pending"
RateOffered == CaseShown /\ UserRole = "user" /\ caseData = "completed"

(* An accept button shown as long as the case is not closed. *)
AcceptOffered_UntilClosed ==
  CaseShown /\ UserRole = "professional" /\ caseData \in {"pending", "in_progress"}

(* Template lines 133-147: what a professional is offered. *)
AcceptOffered == CaseShown /\ UserRole = "professional" /\ caseData = "pending"
CompleteOffered == CaseShown /\ UserRole = "professional" /\ caseData = "in_progress"

(* loadCaseDetail up to its await (lines 299-303), replacing request r. *)
LoadCaseDetail(r) ==
  /\ isLoading' = TRUE
  /\ caseRequests' = (caseRequests (-) SetToBag({r})) (+) SetToBag({CaseReq("load", caseData)})

(* The page /case/:id is opened or loaded again: a new instance of the    *)
(* view, whose onMounted (line 422) loads the case.                       *)
OpenCase ==
  /\ currentRoute = "CaseDetail"
  /\ isLoading' = TRUE
  /\ caseData' = "null"
  /\ showRatingModal' = FALSE
  /\ caseRequests' = SetToBag({CaseReq("load", "null")})
  /\ UNCHANGED << wizardVars, routerVars, viewVars >>

(* loadCaseDetail after its await (lines 303-311). *)
HandleLoad(r, data) ==
  /\ r.kind = "load"
  /\ caseData' = IF data.throws THEN "null" ELSE data.case_status
  /\ isLoading' = FALSE
  /\ caseRequests' = caseRequests (-) SetToBag({r})
  /\ UNCHANGED << showRatingModal, wizardVars, routerVars, viewVars >>

(* A button of the actions card posts its request once the user confirmed. *)
PostAction(kind) ==
  /\ CaseRoom
  /\ caseRequests' = caseRequests (+) SetToBag({CaseReq(kind, caseData)})
  /\ UNCHANGED << isLoading, caseData, showRatingModal, wizardVars, routerVars, viewVars >>

(* The request was answered: on success the case is loaded again, on an   *)
(* error only an alert is shown.                                          *)
ReloadAfter(r, ok) ==
  /\ IF ok THEN LoadCaseDetail(r)
     ELSE /\ caseRequests' = caseRequests (-) SetToBag({r})
          /\ UNCHANGED isLoading
  /\ UNCHANGED << caseData, wizardVars, routerVars, viewVars >>

(* acceptCase (lines 344-352) *)
AcceptCase == AcceptOffered /\ PostAction("accept")

HandleAccept(r, ok) ==
  /\ r.kind = "accept"
  /\ ReloadAfter(r, ok)
  /\ UNCHANGED showRatingModal

(* completeCase (lines 354-362) *)
CompleteCase == CompleteOffered /\ PostAction("complete")

HandleComplete(r, ok) ==
  /\ r.kind = "complete"
  /\ ReloadAfter(r, ok)
  /\ UNCHANGED showRatingModal

(* cancelCase (lines 364-372): on success the view is left for the dashboard. *)
CancelCase == CancelOffered /\ PostAction("cancel")

HandleCancel(r, ok) ==
  /\ r.kind = "cancel"
  /\ caseRequests' = caseRequests (-) SetToBag({r})
  /\ IF ok THEN pending' = Nav("Dashboard", "", "") ELSE UNCHANGED pending
  /\ UNCHANGED << isLoading, caseData, showRatingModal, wizardVars, viewVars,
                  authUser, authStorage, currentRoute, routeQuery >>

(* The rating button (line 124) and the dialog's cancel (lines 234, 264). *)
OpenRating ==
  /\ RateOffered
  /\ showRatingModal' = TRUE
  /\ UNCHANGED << isLoading, caseData, caseRequests, wizardVars, routerVars, viewVars >>

CloseRating ==
  /\ showRatingModal
  /\ showRatingModal' = FALSE
  /\ UNCHANGED << isLoading, caseData, caseRequests, wizardVars, routerVars, viewVars >>

(* submitRating (lines 374-386), with the stars chosen in the dialog. *)
SubmitRating == showRatingModal /\ PostAction("rate")

HandleRate(r, ok) ==
  /\ r.kind = "rate"
  /\ ReloadAfter(r, ok)
  /\ showRatingModal' = IF ok THEN FALSE ELSE showRatingModal

(* A signed-in user of any role has the page of a case open. *)
CaseInit ==
  /\ WizardInit
  /\ storage = NoStored
  /\ CaseCreated
  /\ ViewsCreated
  /\ authUser \in Roles
  /\ authStorage = authUser
  /\ currentRoute = "CaseDetail"
  /\ routeQuery = ""
  /\ pending = NoNav

CaseNext ==
  \/ OpenCase
  \/ \E r \in CaseRequests, data \in LoadResponses : HandleLoad(r, data)
  \/ AcceptCase
  \/ \E r \in CaseRequests, ok \in BOOLEAN : HandleAccept(r, ok)
  \/ CompleteCase
  \/ \E r \in CaseRequests, ok \in BOOLEAN : HandleComplete(r, ok)
  \/ CancelCase
  \/ \E r \in CaseRequests, ok \in BOOLEAN : HandleCancel(r, ok)
  \/ OpenRating
  \/ CloseRating
  \/ SubmitRating
  \/ \E r \in CaseRequests, ok \in BOOLEAN : HandleRate(r, ok)
  \/ BeforeEach

CaseSpec == CaseInit /\ [][CaseNext]_vars

TypeOK ==
  /\ loading \in BOOLEAN /\ error \in BOOLEAN
  /\ currentAnswerArray.k = "arr"
  /\ Len(questionHistory) <= MaxHistory
  /\ BagCardinality(inflight) <= MaxInflight

(***************************************************************************)
(* Properties.                                                             *)
(***************************************************************************)
Required(q) == q.required # FALSE

(* The input of the displayed question's type holds nothing. *)
AnswerEmpty(q) ==
  IF q.type = "message" THEN FALSE
  ELSE IF q.type = "form" THEN
    \E f \in FieldNames : FieldRequired(f) /\ Trim(FieldValue(formData, f)) = ""
  ELSE IF q.type = "checkbox" THEN currentAnswerArray.a = {}
  ELSE IF q.type = "upload" THEN uploadedFile = Null
  ELSE currentAnswer \in {Str(""), Null}

(* C1: for every question type, canSubmit is false when the question is   *)
(* required and its field/selection is empty (no text or choice, no       *)
(* checkbox option, a required form field blank, no uploaded file), and   *)
(* true otherwise.                                                        *)
C1_CanSubmitIffFilled ==
  currentQuestion # NoQuestion =>
    (canSubmit <=> ~(Required(currentQuestion) /\ AnswerEmpty(currentQuestion)))

BusyFlag(kind) ==
  IF kind = "regenerate" THEN isRegenerating
  ELSE IF kind = "upload" THEN isUploading
  ELSE isSubmitting
UserActions == {"answer", "goback", "confirm", "regenerate", "upload"}

(* C2: each user action (submit answer, previous question, approve        *)
(* summary, regenerate summary, upload file) has at most one request in   *)
(* flight, and while it is in flight the action's busy flag is true.      *)
C2_OneRequestPerAction ==
  \A kind \in UserActions :
    /\ Count(kind) <= 1
    /\ Count(kind) = 1 => BusyFlag(kind)

(* C3: no request to the upload endpoint is issued for a file larger than *)
(* the 10MB ceiling.                                                      *)
C3_NoOversizedUpload ==
  \A r \in InFlight("upload") : r.file.size <= MaxUploadMB

(* C4: when the resume endpoint reports the session as completed, the     *)
(* wizard navigates to the completion route and that initialization       *)
(* renders no question.                                                   *)
C4_ResumeCompletedRedirects ==
  initResult = "resumeCompleted" =>
    /\ route = "complete"
    /\ currentQuestion = NoQuestion
    /\ ~QuestionShown

C4_Witness ==
  /\ initResult = "resumeCompleted"
  /\ route = "complete"
  /\ ~loading

(* The answer go-back found cached for the question it restores. *)
Unwrapped(v) == IF v.k = "wrap" THEN Str(v.s) ELSE v
RestoresAnswer(data) ==
  \/ ~data.throws /\ data.success /\ data.previous_answer # Null
  \/ data.throws /\ Len(questionHistory) > 0
CachedAnswer(data) ==
  IF data.throws THEN questionHistory[Len(questionHistory)].answer
  ELSE Unwrapped(data.previous_answer)

(* C5: after going back (server go-back or local-history fallback) the    *)
(* answer state holds the previous question's cached answer in the shape  *)
(* of that question's type: an array for checkbox, an object for form, a  *)
(* scalar for every other type.                                           *)
C5_GoBackRestoresShape ==
  [][\A r \in Requests, data \in GoBackResponses :
       (HandleGoBack(r, data) /\ RestoresAnswer(data)) =>
         IF currentQuestion'.type = "checkbox" THEN
           IsArray(currentAnswerArray') /\ currentAnswerArray' = CachedAnswer(data)
         ELSE IF currentQuestion'.type = "form" THEN
           formData'.k = "obj" /\ formData' = CachedAnswer(data)
         ELSE
           IsScalar(currentAnswer') /\ currentAnswer' = CachedAnswer(data)]_vars

(* The step the wizard displays: a question, the summary review or the    *)
(* completion redirect.                                                   *)
DisplayedStep ==
  IF route = "complete" THEN [kind |-> "completed", question |-> NoQuestion]
  ELSE IF showSummaryReview /\ currentSummary # "" THEN
    [kind |-> "summary", question |-> NoQuestion]
  ELSE [kind |-> "question", question |-> currentQuestion]

ServerResponseStep ==
  \/ \E r \in Requests, data \in AnswerResponses : ~data.throws /\ HandleAnswer(r, data)
  \/ \E r \in Requests, data \in GoBackResponses : ~data.throws /\ HandleGoBack(r, data)
  \/ \E r \in Requests, data \in ConfirmResponses : ~data.throws /\ HandleConfirm(r, data)
  \/ \E r \in Requests, data \in RegenerateResponses :
       ~data.throws /\ HandleRegenerate(r, data)

(* C6 as stated: after initialization the displayed step changes only as  *)
(* the result of a server response to submit-answer, go-back or           *)
(* validate-summary; the client never picks the question itself.          *)
C6_OnlyServerResponses ==
  [][(~loading /\ DisplayedStep' # DisplayedStep) => ServerResponseStep]_vars

(* C6 amended: after initialization the displayed step changes only in   *)
(* the step that resolves a submit-answer, go-back or validate-summary    *)
(* request, by a response or by an error (a go-back request that errors   *)
(* restores the last question of the local history).                      *)
C6_OnlyWhenRequestResolves ==
  [][(~loading /\ DisplayedStep' # DisplayedStep) =>
       \E kind \in {"answer", "goback", "confirm"} : Count(kind)' < Count(kind)]_vars

C6_Witness ==
  /\ ~loading /\ route = "wizard"
  /\ DisplayedStep.kind = "summary"
  /\ Len(questionHistory) > 0

(* C7: when a submit-answer request fails (the request errors or the      *)
(* response carries an error), the displayed question, progress, part     *)
(* info and local history equal their values before the submit, and the   *)
(* entered answer is left as it is.                                       *)
C7_FailedSubmitRestoresState ==
  [][\A r \in Requests, data \in AnswerResponses :
       (HandleAnswer(r, data) /\ (data.throws \/ data.error)) =>
         /\ currentQuestion' = r.snap.question
         /\ progress' = r.snap.progress
         /\ partInfo' = r.snap.partInfo
         /\ questionHistory' = r.snap.history
         /\ answerVars' = answerVars]_vars

(* C8: when the go-back endpoint fails (the request errors or the         *)
(* response does not report success) and the local history is non-empty,  *)
(* the wizard restores the last remembered question with its answer,      *)
(* progress and part info, and removes that entry from the history.       *)
C8_FailedGoBackFallsBack ==
  [][\A r \in Requests, data \in GoBackResponses :
       (HandleGoBack(r, data) /\ (data.throws \/ ~data.success)
          /\ Len(questionHistory) > 0) =>
         LET lastEntry == questionHistory[Len(questionHistory)] IN
         /\ currentQuestion' = lastEntry.question
         /\ progress' = lastEntry.progress
         /\ partInfo' = lastEntry.partInfo
         /\ questionHistory' = Pop(questionHistory)]_vars

(* C9: the submit-answer request of an upload question is never issued    *)
(* while an upload for that question is still in flight.                  *)
C9_UploadResolvesBeforeSubmit ==
  [][SubmitAnswer =>
       ~\E u \in InFlight("upload") : u.qid = currentQuestion.id]_vars

(* C10: the answer a checkbox question is submitted with is an array of   *)
(* the selected option labels, also when zero or one option is selected.  *)
C10_CheckboxAnswerIsArray ==
  \A r \in InFlight("answer") :
    r.snap.question.type = "checkbox" =>
      /\ IsArray(r.answer)
      /\ r.answer.a \subseteq Options
      /\ r.answer.s = "" /\ r.answer.o = {} /\ r.answer.f = ""

C10_Witness ==
  \E r \in InFlight("answer") :
    /\ r.snap.question.type = "checkbox"
    /\ r.answer = Arr({})

(* C11: the submit of an upload question for which a file was uploaded    *)
(* carries the file as {filename, content_type, base64} built from that   *)
(* file: the filename sent is the name of the file the wizard holds.      *)
C11_UploadAnswerFromFile ==
  \A r \in InFlight("answer") :
    (r.snap.question.type = "upload" /\ r.answer # Null) =>
      /\ r.file.name # ""
      /\ r.file.name = r.answer.f

ScalarTypes == {"radio", "select", "text", "textarea"}

CacheHit ==
  /\ storage.present
  /\ storage.payload.question # NoQuestion
  /\ storage.sessionId = RouteSessionId

(* C13: on mount, when the browser holds session data with a question for *)
(* the session being opened the wizard displays that question and calls   *)
(* no resume endpoint; in every other case it calls the resume endpoint.  *)
C13_CachedQuestionElseResume ==
  [][Mount =>
       IF CacheHit THEN
         /\ currentQuestion' = storage.payload.question
         /\ ~loading' /\ QuestionShown'
         /\ Count("resume")' = 0
       ELSE
         /\ Count("resume")' = 1
         /\ currentQuestion' = NoQuestion]_vars

(* The entry of another session holds a question; the wizard resumes. *)
C13_Witness ==
  /\ storage.present
  /\ storage.payload.question # NoQuestion
  /\ storage.sessionId # RouteSessionId
  /\ initResult = "loading"
  /\ Count("resume") = 1

(* C14: the entry the start action wrote serves at most one               *)
(* initialization: the initialization that displays its question removes  *)
(* it, nothing but the start action writes an entry, and an               *)
(* initialization that finds no entry asks the server.                    *)
C14_EntryUsedOnce ==
  [][/\ ((Mount \/ RetryInit) /\ QuestionShown') => ~storage'.present
     /\ (storage' # storage /\ storage'.present) =>
          \E p \in Bank \cup {NoPayload} : LaunchQuestionnaire(p)
     /\ ((Mount \/ RetryInit) /\ ~storage.present) =>
          (Count("resume")' = 1 /\ ~QuestionShown')]_vars

(* An initialization has displayed the question and no entry is left. *)
C14_Witness ==
  /\ initResult = "question"
  /\ QuestionShown
  /\ Count("resume") = 0
  /\ storage = NoStored

(* The input the question box shows for a question of type t. *)
InputOf(t, answer, answerArray, fd) ==
  IF t = "checkbox" THEN answerArray
  ELSE IF t = "form" THEN fd
  ELSE answer

(* C15: after a resume whose previously given answers include one for the *)
(* returned current question, the input of that question (form fields,    *)
(* choice, checkbox selections) holds that answer.                         *)
C15_ResumePrepopulates ==
  [][\A r \in Requests, data \in ResumeResponses :
       (/\ HandleResume(r, data)
        /\ ~data.throws /\ data.success /\ data.status # "completed"
        /\ data.payload.question.type \in ScalarTypes \cup {"checkbox", "form"}
        /\ data.answers # Null) =>
         InputOf(currentQuestion'.type, currentAnswer', currentAnswerArray', formData')
           = Unwrapped(data.answers)]_vars

(* The wizard is in summary review: a summary awaits the user's approval. *)
SummaryReview ==
  /\ Mounted /\ ~loading /\ ~error
  /\ showSummaryReview /\ currentSummary # ""

(* C16: once a submit-answer response has requested summary validation,   *)
(* until the summary is approved the wizard shows the summary box: no     *)
(* question is displayed, no answer can be submitted, and regenerate and  *)
(* approve are the only actions offered.                                  *)
C16_SummaryReviewOnly ==
  SummaryReview =>
    /\ SummaryShown
    /\ ~QuestionShown
    /\ ~TransitionShown

(* The step puts a part-transition message on display. *)
MessageSet == transitionMessage' # 0 /\ transitionMessage' # transitionMessage

(* The step displays a question of another part than the question before. *)
PartChanged ==
  /\ currentQuestion # NoQuestion /\ currentQuestion' # NoQuestion
  /\ partInfo > 0 /\ partInfo' > 0
  /\ partInfo' # partInfo

(* C17: the part-transition message is shown exactly when a server        *)
(* response moves the questionnaire into a part different from the part   *)
(* of the previously displayed question.                                  *)
C17_MessageIffPartChanges ==
  [][~loading => (MessageSet <=> (ServerResponseStep /\ PartChanged))]_vars


(* A navigation is confirmed in this step. *)
Completes == pending.pc # "idle" /\ pending'.pc = "idle"

(* C18: navigation to a route that requires authentication never          *)
(* completes for an unauthenticated user: after the guard has tried to    *)
(* restore the session from the auth store, it redirects to Login         *)
(* carrying the originally requested path as the redirect query.          *)
C18_UnauthenticatedRedirectedToLogin ==
  [][ /\ (Completes /\ RouteTable[currentRoute'].requiresAuth) => IsAuthenticated'
      /\ (InitDone /\ ~IsAuthenticated') =>
           pending' = Nav("Login", FullPath(pending.to), pending.to) ]_vars

(* The login page reached by that redirect, from the wizard's address. *)
C18_Witness ==
  /\ ~IsAuthenticated
  /\ currentRoute = "Login"
  /\ routeQuery = FullPath("Questionnaire")
  /\ pending = NoNav

(* C19: navigation to a route restricted to a set of roles completes only *)
(* if the authenticated user's role is in that set; for any other role    *)
(* the guard redirects to Unauthorized and the restricted route is never  *)
(* entered.                                                               *)
C19_RoleRestrictedRoutes ==
  [][ /\ (Completes /\ RouteTable[currentRoute'].roles # {}) =>
           (IsAuthenticated' /\ UserRole' \in RouteTable[currentRoute'].roles)
      /\ ( /\ BeforeEach \/ InitDone
           /\ RouteTable[pending.to].roles # {}
           /\ IsAuthenticated'
           /\ UserRole' \notin RouteTable[pending.to].roles ) =>
           (pending' = Nav("Unauthorized", "", pending.to) /\ UNCHANGED currentRoute) ]_vars

(* A professional sent away from an administration route. *)
C19_Witness ==
  /\ UserRole = "professional"
  /\ pending = Nav("Unauthorized", "", "UserManagement")


(* The status-changing actions and the status each of them starts from. *)
PermittedFrom ==
  "accept" :> "pending" @@ "complete" :> "in_progress" @@ "cancel" :> "pending"

(* C20: the case detail view offers a status-changing action only from    *)
(* the lifecycle status that permits it: accept only on a pending case,   *)
(* complete only on an in_progress case, cancel only on a pending case;   *)
(* no status-changing action is offered on a completed or cancelled case. *)
(* Offered is read on the status the view displays, and a request counts  *)
(* by the status displayed when its button was used.                      *)
C20_ActionsOnlyFromPermittingStatus ==
  /\ AcceptOffered => caseData = PermittedFrom["accept"]
  /\ CompleteOffered => caseData = PermittedFrom["complete"]
  /\ CancelOffered => caseData = PermittedFrom["cancel"]
  /\ caseData \in {"completed", "cancelled"} =>
       ~(AcceptOffered \/ CompleteOffered \/ CancelOffered)
  /\ \A r \in CaseRequests :
       r.kind \in DOMAIN PermittedFrom => r.shown = PermittedFrom[r.kind]

(* A professional used accept on the pending case on display; the request *)
(* is on its way and the view still shows the case as pending.            *)
C20_Witness ==
  /\ AcceptOffered
  /\ \E r \in CaseRequests : r.kind = "accept" /\ r.shown = "pending"

(* C21: if wizard initialization fails (missing session id, request error *)
(* or abnormal session state), the wizard ends in the error state with    *)
(* loading cleared and a retry control shown; retry re-runs               *)
(* initialization and, if the server then returns a question, the wizard  *)
(* shows that question with the error cleared.                            *)
C21_InitFailureAndRetry ==
  [][ /\ initResult' = "error" => (ErrorShown' /\ ~loading' /\ Mounted')
      /\ RetryInit => (~error' /\ initResult' \in {"loading", "question"})
      /\ (initResult = "loading" /\ initResult' = "question") =>
           (QuestionShown' /\ ~error') ]_vars

(* The error box after a failed initialization, nothing in flight. *)
C21_Witness ==
  /\ initResult = "error"
  /\ ErrorShown
  /\ inflight = EmptyBag
  /\ currentQuestion = NoQuestion

(* The flag a request of this kind runs under. *)
RequestFlag(kind) ==
  IF kind \in {"resume", "status"} THEN loading ELSE BusyFlag(kind)

(* C22: every wizard busy flag (loading, isSubmitting, isRegenerating,    *)
(* isUploading) that was set for a request is cleared once that request's *)
(* response or error resolves; once all issued requests have resolved no  *)
(* busy flag remains set and the controls are enabled again.  (A resume   *)
(* answer that falls back to the status request hands loading on to it.)  *)
C22_BusyFlagsCleared ==
  [][ /\ (inflight' = EmptyBag /\ initResult' # "created") =>
           ~(loading' \/ isSubmitting' \/ isRegenerating' \/ isUploading')
      /\ BagCardinality(inflight') < BagCardinality(inflight) =>
           \A r \in Requests :
             CopiesIn(r, inflight') < CopiesIn(r, inflight) => ~RequestFlag(r.kind)' ]_vars

(* Answers, an upload and a go-back have been through; nothing is in     *)
(* flight and no flag is left.                                           *)
C22_Witness ==
  /\ inflight = EmptyBag
  /\ QuestionShown
  /\ Len(questionHistory) > 0
  /\ uploadedFile # Null
  /\ ~(loading \/ isSubmitting \/ isRegenerating \/ isUploading)

(* The guard lets a user of this role view the route. *)
AllowedToView(name, role) ==
  RouteTable[name].roles = {} \/ role \in RouteTable[name].roles

(* C23: after a successful login the first route the user is sent to is   *)
(* one their role is allowed to view: the redirect query target when it   *)
(* is followed, otherwise the role home (admin to /admin, professional to *)
(* /professional, any other role to /dashboard).                          *)
C23_LoginTargetAllowed ==
  [][ \A role \in Roles :
        HandleLogin(role) =>
          /\ AllowedToView(pending'.to, role)
          /\ pending'.to \in {RoleHome(role)} \cup
               (IF routeQuery = "" THEN {} ELSE {RouteOfPath(routeQuery)}) ]_vars

(* C24: a file uploaded for one question is only ever attached to the     *)
(* pending answer of that same question: an upload response that arrives  *)
(* after the wizard has moved to a different question does not set the    *)
(* file on, and is not submitted with, the new question.                  *)
C24_FileStaysWithItsQuestion ==
  [][ \A r \in Requests :
        (r.kind = "upload" /\ CopiesIn(r, inflight') < CopiesIn(r, inflight)
           /\ currentQuestion.id # r.qid)
          => uploadedFile' = uploadedFile ]_vars

(* C25: every request the wizard issues for the displayed session         *)
(* (submit-answer, go-back, validate-summary, upload) carries the session *)
(* id of the session the wizard was opened for (the route's session id),  *)
(* even when the browser cache holds data of a different session.         *)
C25_RequestsCarryRouteSession ==
  \A r \in Requests :
    r.kind \in {"answer", "goback", "confirm", "regenerate", "upload"} =>
      r.sid = RouteSessionId

(* C26: whenever a question is displayed and the local history is         *)
(* non-empty, the top history entry is the question answered immediately  *)
(* before the displayed one and never the displayed question itself,      *)
(* including after a successful server go-back.  Read here at the end of  *)
(* a go-back that changed the displayed question, with no request left in *)
(* flight.                                                                *)
C26_TopOfHistoryIsNotDisplayed ==
  [][ ( /\ Count("goback")' < Count("goback")
        /\ inflight' = EmptyBag
        /\ QuestionShown'
        /\ currentQuestion' # currentQuestion
        /\ Len(questionHistory') > 0 )
      => questionHistory'[Len(questionHistory')].question # currentQuestion' ]_vars

(* C27: route-guard redirection always terminates: from any               *)
(* authentication state, role and target route, navigation settles on a   *)
(* final route after a bounded number of redirects, with no redirect loop *)
(* among Login, the role home routes and Unauthorized.                    *)
C27_GuardTerminates == <>[](pending = NoNav /\ currentRoute \in RouteNames)

(* A signed-in user with a role the table does not name asked for the    *)
(* login page and is being sent to the dashboard, the first of two        *)
(* redirects.                                                             *)
C27_Witness ==
  /\ UserRole = "other"
  /\ pending = Nav("Dashboard", "", "Login")

(***************************************************************************)
(* The professional verification forms.  Four views carry a copy of the    *)
(* file list: ProfessionalDashboard.vue, ProfessionalVerification.vue,     *)
(* part_000 and the dashboard kept in QuestionnaireCompletion.vue.  A file *)
(* is modelled by its size in MB; file.size > 10 * 1024 * 1024 is          *)
(* size > MaxUploadMB.                                                     *)
(***************************************************************************)
MaxFiles == 5
MaxSelect == 2

FormViews == {"ProfessionalDashboard", "ProfessionalVerification", "part_000",
              "QuestionnaireCompletion"}

(* Sizes on both sides of the limit. *)
FileSizes == {MaxUploadMB, MaxUploadMB + 1}

(* What one change event of the file input can carry. *)
Selections == UNION {[1..n -> FileSizes] : n \in 0..MaxSelect}

(* The copies that loop over the files and compare file.size. *)
ChecksSize(view) == view \in {"ProfessionalDashboard", "ProfessionalVerification", "part_000"}

(* The copies that report through the fileError ref; the others alert(). *)
UsesFileError(view) == view \in {"ProfessionalDashboard", "QuestionnaireCompletion"}

(* handleFileSelect(event) *)
HandleFileSelect(files) ==
  /\ IF Len(selectedFiles) + Len(files) > MaxFiles
       THEN /\ fileError' = UsesFileError(formView)
            /\ UNCHANGED selectedFiles
       ELSE IF ChecksSize(formView) /\ \E i \in 1..Len(files) : files[i] > MaxUploadMB
         THEN /\ fileError' = (formView = "ProfessionalDashboard")
              /\ UNCHANGED selectedFiles
         ELSE /\ selectedFiles' = selectedFiles \o files
              /\ fileError' = IF UsesFileError(formView) THEN FALSE ELSE fileError
  /\ UNCHANGED << formView, completionVars, poolVars, wizardVars, routerVars, caseVars >>

(* removeFile(index): selectedFiles.value.splice(index, 1) *)
RemoveSelectedFile(index) ==
  /\ index \in 1..Len(selectedFiles)
  /\ selectedFiles' = SubSeq(selectedFiles, 1, index - 1)
                        \o SubSeq(selectedFiles, index + 1, Len(selectedFiles))
  /\ UNCHANGED << formView, fileError, completionVars, poolVars, wizardVars, routerVars, caseVars >>

(* resetForm() of ProfessionalDashboard.vue and closeVerificationModal()  *)
(* of QuestionnaireCompletion.vue empty the list.                         *)
ResetFiles ==
  /\ formView \in {"ProfessionalDashboard", "QuestionnaireCompletion"}
  /\ selectedFiles' = << >>
  /\ fileError' = IF formView = "ProfessionalDashboard" THEN FALSE ELSE fileError
  /\ UNCHANGED << formView, completionVars, poolVars, wizardVars, routerVars, caseVars >>

FormInit ==
  /\ WizardInit
  /\ storage = NoStored
  /\ RouterIdle
  /\ CaseCreated
  /\ completionView = "QuestionnaireCompletion"
  /\ CompletionCreated
  /\ PoolCreated
  /\ formView \in FormViews
  /\ FormCreated

FormNext ==
  \/ \E files \in Selections : HandleFileSelect(files)
  \/ \E index \in 1..MaxFiles : RemoveSelectedFile(index)
  \/ ResetFiles

FormSpec == FormInit /\ [][FormNext]_vars

(* C29: in the verification forms the selected-file list never holds more *)
(* than 5 files nor any file larger than 10MB, whatever files were        *)
(* selected and removed.                                                  *)
C29_FileListWithinLimits ==
  /\ Len(selectedFiles) <= MaxFiles
  /\ \A i \in 1..Len(selectedFiles) : selectedFiles[i] <= MaxUploadMB

(***************************************************************************)
(* The completion view.  QuestionnaireCompletion.vue (lines 1-347) and the *)
(* completion part of QuestionnairePage.vue (lines 990-1395) carry the     *)
(* same script; they differ in the finalize button.                        *)
(***************************************************************************)
MaxFinalize == 2

CompletionViews == {"QuestionnaireCompletion", "QuestionnairePage"}

(* case_uuid values of the backend; "" is null. *)
CaseUuids == {"", "c1", "c2"}

(* A request awaiting its response; a finalize request carries the     *)
(* create_case of its body.                                             *)
CompletionReq(kind, create) == [kind |-> kind, create_case |-> create]

LoadReq == CompletionReq("load", FALSE)

CompletionRequests ==
  {LoadReq} \cup {CompletionReq("finalize", create) : create \in BOOLEAN}

Awaited(kind) ==
  BagCardinality([r \in {q \in BagToSet(completionRequests) : q.kind = kind}
                    |-> CopiesIn(r, completionRequests)])

(* <template v-else>: neither loading nor error. *)
ContentShown == ~completionLoading /\ ~completionError

(* The button of QuestionnaireCompletion.vue is :disabled="isSubmitting". *)
(* The Button of QuestionnairePage.vue gets :loading="isSubmitting"; no   *)
(* disabled attribute is bound, so every click it may pass on is allowed. *)
FinalizeEnabled ==
  completionView = "QuestionnaireCompletion" => ~completionSubmitting

(* The button is rendered only in the content, v-if="!isFinalized". *)
FinalizeOffered_Always == ContentShown

FinalizeOffered == ContentShown /\ ~isFinalized

(* loadCompletionData up to its await: onMounted, or the retry button of *)
(* the error state.                                                       *)
LoadCompletionData ==
  /\ \/ completionLoading /\ completionRequests = EmptyBag
     \/ ~completionLoading /\ completionError
  /\ completionLoading' = TRUE
  /\ completionError' = FALSE
  /\ completionRequests' = completionRequests (+) SetToBag({LoadReq})
  /\ UNCHANGED << completionView, isFinalized, completionSubmitting, finalizationResult,
                  caseUuid, createCase, toldFinalized, formVars, poolVars, wizardVars, routerVars, caseVars >>

(* loadCompletionData after its await.  outcome "data": data.success;    *)
(* "refused": data.success falsy; "thrown": the request rejected.        *)
(* should is data.should_create_case.                                    *)
HandleCompletionData(outcome, finalized, uuid, should) ==
  /\ Awaited("load") > 0
  /\ completionRequests' = completionRequests (-) SetToBag({LoadReq})
  /\ IF outcome = "data"
       THEN /\ isFinalized' = finalized
            /\ caseUuid' = uuid
            /\ createCase' = IF should /\ ~finalized THEN TRUE ELSE createCase
            /\ toldFinalized' = (toldFinalized \/ finalized)
            /\ UNCHANGED completionError
       ELSE /\ completionError' = TRUE
            /\ UNCHANGED << isFinalized, caseUuid, createCase, toldFinalized >>
  /\ completionLoading' = FALSE
  /\ UNCHANGED << completionView, completionSubmitting, finalizationResult,
                  formVars, poolVars, wizardVars, routerVars, caseVars >>

(* finalizeQuestionnaire up to its await. *)
FinalizeQuestionnaire ==
  /\ FinalizeOffered
  /\ FinalizeEnabled
  /\ Awaited("finalize") < MaxFinalize
  /\ completionSubmitting' = TRUE
  /\ finalizationResult' = "null"
  /\ completionRequests' = completionRequests (+) SetToBag({CompletionReq("finalize", createCase)})
  /\ UNCHANGED << completionView, completionLoading, completionError, isFinalized,
                  caseUuid, createCase, toldFinalized, formVars, poolVars, wizardVars, routerVars, caseVars >>

(* finalizeQuestionnaire after its await.  outcome "success":            *)
(* response.data.success; "refused": response.data with success falsy,   *)
(* kept as the result; "thrown": rejected, the catch block builds the    *)
(* failure result.  uuid = "" is a response without case.                *)
HandleFinalize(r, outcome, uuid) ==
  /\ r.kind = "finalize"
  /\ CopiesIn(r, completionRequests) > 0
  /\ completionRequests' = completionRequests (-) SetToBag({r})
  /\ IF outcome = "success"
       THEN /\ finalizationResult' = "success"
            /\ isFinalized' = TRUE
            /\ caseUuid' = IF uuid # "" THEN uuid ELSE caseUuid
            /\ toldFinalized' = TRUE
       ELSE /\ finalizationResult' = IF outcome = "thrown" THEN "failure" ELSE "refused"
            /\ UNCHANGED << isFinalized, caseUuid, toldFinalized >>
  /\ completionSubmitting' = FALSE
  /\ UNCHANGED << completionView, completionLoading, completionError, createCase,
                  formVars, poolVars, wizardVars, routerVars, caseVars >>

(* The checkbox of the create-case option, shown unless the case was *)
(* created (v-if="isFinalized && caseUuid", v-else).                 *)
ToggleCreateCase ==
  /\ ContentShown
  /\ ~(isFinalized /\ caseUuid # "")
  /\ createCase' = ~createCase
  /\ UNCHANGED << completionView, completionLoading, completionError, isFinalized,
                  completionSubmitting, finalizationResult, caseUuid, completionRequests,
                  toldFinalized, formVars, poolVars, wizardVars, routerVars, caseVars >>

CompletionInit ==
  /\ WizardInit
  /\ storage = NoStored
  /\ RouterIdle
  /\ CaseCreated
  /\ completionView \in CompletionViews
  /\ CompletionCreated
  /\ formView = "ProfessionalDashboard"
  /\ FormCreated
  /\ PoolCreated

CompletionNext ==
  \/ LoadCompletionData
  \/ \E outcome \in {"data", "refused", "thrown"}, finalized \in BOOLEAN,
        uuid \in CaseUuids, should \in BOOLEAN :
       HandleCompletionData(outcome, finalized, uuid, should)
  \/ ToggleCreateCase
  \/ FinalizeQuestionnaire
  \/ \E r \in CompletionRequests, outcome \in {"success", "refused", "thrown"}, uuid \in CaseUuids :
       HandleFinalize(r, outcome, uuid)

CompletionSpec == CompletionInit /\ [][CompletionNext]_vars

(* C28: once a finalize request has succeeded, or the completion data     *)
(* reported the session as finalized, the view issues no further finalize *)
(* request: the button is gone and no step adds a finalize request.       *)
C28_NoFinalizeAfterFinalized ==
  [][ toldFinalized => /\ Awaited("finalize")' <= Awaited("finalize")
                       /\ ~FinalizeOffered
                       /\ ~FinalizeOffered' ]_vars

(* A finalize request has succeeded and nothing is awaited. *)
C28_Witness ==
  /\ toldFinalized
  /\ finalizationResult = "success"
  /\ ContentShown
  /\ completionRequests = EmptyBag

(***************************************************************************)
(* The case pool view (part_003).  The view makes its own check of the     *)
(* role in onMounted, whatever let it be mounted, so it is followed under  *)
(* every role; its router.push calls go through the navigation guard.      *)
(***************************************************************************)
MaxPoolRequests == 2

(* Some options of the three selects (lines 65-97); "other" stands for *)
(* the last category option.                                           *)
Categories == {"", "other"}
Budgets == {"", "0-5000", "20000+"}
Sorts == {"newest", "urgent"}

Filters == [category : Categories, budget : Budgets, sort : Sorts]

NoFilters == [category |-> "", budget |-> "", sort |-> "newest"]

(* filters.value.budget.split('-'); "" is an undefined second element. *)
SplitBudget(budget) ==
  IF budget = "0-5000" THEN << "0", "5000" >> ELSE << budget, "" >>

(* The params of loadCases (lines 321-328); "" is a key not sent. *)
Params(f) ==
  [category |-> f.category,
   min_budget |-> IF f.budget # "" THEN SplitBudget(f.budget)[1] ELSE "",
   max_budget |-> IF f.budget # "" /\ SplitBudget(f.budget)[2] # "+"
                    THEN SplitBudget(f.budget)[2] ELSE "",
   sort |-> f.sort]

(* A request awaiting its response. *)
PoolReq(kind, params) == [kind |-> kind, params |-> params]

VerifyReq == PoolReq("verify", Params(NoFilters))

PoolRequests == {VerifyReq} \cup {PoolReq("pool", Params(f)) : f \in Filters}

PoolAwaited(kind) ==
  BagCardinality([r \in {q \in BagToSet(poolRequests) : q.kind = kind}
                    |-> CopiesIn(r, poolRequests)])

(* What /professional/verification-status may answer: is_verified truthy, *)
(* falsy with status pending, falsy otherwise, or the request rejected.   *)
VerificationOutcomes == {"verified", "pending", "unverified", "thrown"}

(* loadCases up to its await (lines 318-330), with the requests left and *)
(* the filters in force.                                                 *)
RequestPool(left, f) ==
  /\ poolLoading' = TRUE
  /\ poolRequests' = left (+) SetToBag({PoolReq("pool", Params(f))})

(* onMounted up to its first await (lines 386-392) with checkVerification *)
(* up to its await (lines 291-294).                                       *)
PoolMount ==
  /\ currentRoute = "CasePool"
  /\ pending = NoNav
  /\ ~poolMounted
  /\ poolMounted' = TRUE
  /\ IF UserRole # "professional"
       THEN /\ pending' = Nav("Dashboard", "", "")
            /\ UNCHANGED << checkingVerification, poolRequests >>
       ELSE /\ checkingVerification' = TRUE
            /\ poolRequests' = poolRequests (+) SetToBag({VerifyReq})
            /\ UNCHANGED pending
  /\ UNCHANGED << poolVerified, poolLoading, poolCases, filters, authUser, authStorage,
                  currentRoute, routeQuery, completionVars, formVars, wizardVars, caseVars >>

(* An onMounted that loads the cases whatever the check returned. *)
HandleVerification_LoadAnyway(outcome) ==
  /\ PoolAwaited("verify") > 0
  /\ checkingVerification' = FALSE
  /\ poolVerified' = IF outcome = "thrown" THEN poolVerified ELSE outcome = "verified"
  /\ pending' = IF outcome = "verified" THEN pending ELSE Nav("ProfessionalDashboard", "", "")
  /\ RequestPool(poolRequests (-) SetToBag({VerifyReq}), filters)
  /\ UNCHANGED << poolMounted, poolCases, filters, authUser, authStorage, currentRoute,
                  routeQuery, completionVars, formVars, wizardVars, caseVars >>

(* checkVerification after its await (lines 295-314) and the rest of      *)
(* onMounted (line 393), which runs before any other event.               *)
HandleVerification(outcome) ==
  /\ PoolAwaited("verify") > 0
  /\ checkingVerification' = FALSE
  /\ poolVerified' = IF outcome = "thrown" THEN poolVerified ELSE outcome = "verified"
  /\ IF outcome = "verified"
       THEN /\ RequestPool(poolRequests (-) SetToBag({VerifyReq}), filters)
            /\ UNCHANGED pending
       ELSE /\ pending' = Nav("ProfessionalDashboard", "", "")
            /\ poolRequests' = poolRequests (-) SetToBag({VerifyReq})
            /\ UNCHANGED poolLoading
  /\ UNCHANGED << poolMounted, poolCases, filters, authUser, authStorage, currentRoute,
                  routeQuery, completionVars, formVars, wizardVars, caseVars >>

(* The selects and the filter and reset buttons are inside               *)
(* v-else-if="isVerified".                                               *)
LoadCasesOffered ==
  /\ currentRoute = "CasePool"
  /\ ~checkingVerification
  /\ poolVerified

(* loadCases from the filter button. *)
LoadCases ==
  /\ LoadCasesOffered
  /\ PoolAwaited("pool") < MaxPoolRequests
  /\ RequestPool(poolRequests, filters)
  /\ UNCHANGED << checkingVerification, poolVerified, poolCases, filters, poolMounted,
                  routerVars, completionVars, formVars, wizardVars, caseVars >>

(* A select changes: v-model takes the value, then @change="loadCases". *)
ChangeFilter(f) ==
  /\ LoadCasesOffered
  /\ PoolAwaited("pool") < MaxPoolRequests
  /\ \E key \in {"category", "budget", "sort"} :
       /\ f[key] # filters[key]
       /\ f = [filters EXCEPT ![key] = f[key]]
  /\ filters' = f
  /\ RequestPool(poolRequests, f)
  /\ UNCHANGED << checkingVerification, poolVerified, poolCases, poolMounted,
                  routerVars, completionVars, formVars, wizardVars, caseVars >>

(* resetFilters (lines 340-343) *)
ResetFilters ==
  /\ LoadCasesOffered
  /\ PoolAwaited("pool") < MaxPoolRequests
  /\ filters' = NoFilters
  /\ RequestPool(poolRequests, NoFilters)
  /\ UNCHANGED << checkingVerification, poolVerified, poolCases, poolMounted,
                  routerVars, completionVars, formVars, wizardVars, caseVars >>

(* loadCases after its await (lines 330-337): response.data.cases || [], *)
(* or [] when the request was rejected.                                  *)
HandlePool(r, outcome) ==
  /\ r.kind = "pool"
  /\ CopiesIn(r, poolRequests) > 0
  /\ poolRequests' = poolRequests (-) SetToBag({r})
  /\ poolCases' = IF outcome = "cases" THEN "some" ELSE "none"
  /\ poolLoading' = FALSE
  /\ UNCHANGED << checkingVerification, poolVerified, filters, poolMounted,
                  routerVars, completionVars, formVars, wizardVars, caseVars >>

PoolInit ==
  /\ WizardInit
  /\ storage = NoStored
  /\ CaseCreated
  /\ ViewsCreated
  /\ authUser \in Roles
  /\ authStorage = authUser
  /\ currentRoute = "CasePool"
  /\ routeQuery = ""
  /\ pending = NoNav

PoolNext ==
  \/ PoolMount
  \/ \E outcome \in VerificationOutcomes : HandleVerification(outcome)
  \/ LoadCases
  \/ \E f \in Filters : ChangeFilter(f)
  \/ ResetFilters
  \/ \E r \in PoolRequests, outcome \in {"cases", "empty", "thrown"} : HandlePool(r, outcome)
  \/ BeforeEach

PoolSpec == PoolInit /\ [][PoolNext]_vars

(* The view has turned the user down: not a professional, or the check    *)
(* ended without is_verified.                                             *)
PoolRefused ==
  /\ poolMounted
  /\ \/ UserRole # "professional"
     \/ PoolAwaited("verify") = 0 /\ ~poolVerified

(* A navigation away from the pool is under way or done. *)
SentAway ==
  \/ pending # NoNav /\ pending.to # "CasePool"
  \/ currentRoute # "CasePool"

(* C30: a case pool request is issued only once the verification-status   *)
(* check reported is_verified for a professional; for a non-professional  *)
(* or an unverified user there is no case pool request and the user is    *)
(* redirected away.                                                       *)
C30_PoolOnlyForVerified ==
  /\ PoolAwaited("pool") > 0 => (poolVerified /\ UserRole = "professional")
  /\ poolLoading => poolVerified
  /\ PoolRefused => (PoolAwaited("pool") = 0 /\ SentAway)

(* An unverified professional has arrived on the professional dashboard. *)
C30_Witness ==
  /\ PoolRefused
  /\ UserRole = "professional"
  /\ currentRoute = "ProfessionalDashboard"
  /\ pending = NoNav
  /\ poolRequests = EmptyBag

====
